---------------------------- MODULE Spec2Model ----------------------------
(***************************************************************************)
(* Model of the vital-sign alerting core of e-Vilochan:                    *)
(*   - server/index.js            ALERT_RANGES, generateAlertsForVitals,   *)
(*                                POST /api/vitals                         *)
(*   - PatientVitalMonitor.tsx    VITAL_RANGES, the evaluation effect, the *)
(*                                per-patient notification store           *)
(*   - VitalNotifications         (unnamed/part_001) the alert banner      *)
(*                                                                         *)
(* Encoding of JavaScript values                                           *)
(*   null / undefined / NaN   the empty sequence  None                     *)
(*   a present value v        the one-element sequence  Some(v)            *)
(*   a string                 the sequence of its characters               *)
(*   a template string `${a}-${b}-${c}`   the tuple <<a, b, c>>            *)
(***************************************************************************)
EXTENDS Integers, Sequences, FiniteSets, TLC

VARIABLES
    \* ---- evaluation of one reading (pure functions applied to an input)
    evalTruth,      \* the numbers the input reading was written from
    evalInput,      \* the reading handed to the evaluators
    srvOut,         \* result of generateAlertsForVitals(evalInput)
    srvDone,
    monOut,         \* result of the PatientVitalMonitor evaluation
    monDone,
    \* ---- the browser: PatientVitalMonitor and its module-level store
    patientNotifications,   \* Map<number, VitalAlert[]>, a function on its keys
    lastCheckTimeRef,       \* useRef<number>(0) of the mounted component
    monPatient,             \* the patient prop: None, or Some(patient_id)
    monJoined,              \* the server has put the component's socket in its room
    socketQueue,            \* vital-alert events in flight to that socket
    \* ---- the browser: VitalNotifications (the banner)
    vnLatest,               \* vitals[0] of the vitals prop, None when it is empty
    vnAlerts,               \* useState alerts
    dismissedAlerts,        \* useState dismissedAlerts, a set of alert ids
    \* ---- the server
    serverClock,            \* the server's clock (Date.now())
    posts,                  \* POST /api/vitals requests handled so far
    vitalsTable,            \* committed rows of the vitals table, per patient
    \* ---- the notification dispatcher's email channel
    rateLimiter,            \* (subject, vital kind) -> time of the last delivery
    mailLog,                \* the sends attempted so far, in order
    \* ---- the server: one POST /api/extract-vitals request
    exPc,                   \* where the handler is: idle, hf, fallback, done
    exHF,                   \* the promise of hf.chatCompletion
    exTess,                 \* the promise of extractWithTesseract
    exGem,                  \* the promise of extractWithGemini
    exCalls,                \* the extraction services called so far, in order
    exAnswers,              \* the responses sent so far, in order
    \* ---- the database and the requests that work on the patients
    dbPatients,             \* committed rows of patients, by patient_id
    dbNextId,               \* the AUTO_INCREMENT counter of patients
    dbBeds,                 \* committed rows of beds: bed_id -> patient_id or null
    dbVitals,               \* committed rows of vitals: patient_id -> how many
    addReq,                 \* the POST /api/patients requests
    delReq,                 \* the DELETE /api/patients/:id request
    vitReq,                 \* the transaction of a POST /api/vitals request
    \* ---- the listeners of the store and the NotificationBell components
    listeners,              \* the Set of subscribed callbacks
    bellPatientId,          \* per bell: the patientId prop
    bellSub,                \* per bell: the callback its effect subscribed, if mounted
    bellGen,                \* per bell: how often its effect has run
    notifications,          \* per bell: useState notifications
    notified,               \* history: the callbacks the last operation invoked
    unsubscribed,           \* history: the callbacks unsubscribed so far
    \* ---- CameraFeed: one viewer and its socket
    viewConnected,          \* the effect has run: the socket is connected
    viewPatientId,          \* the patientId prop
    viewJoined,             \* the server has handled the socket's join-patient
    viewQueue,              \* vital-update events in flight to the socket
    latestVitals,           \* useState latestVitals
    vitalsHistory,          \* useState vitalsHistory
    \* ---- CameraFeed: capturing frames for the OCR worker
    isCapturing,            \* useState isCapturing
    intervalSees,           \* the isProcessing the interval's callback closed over, if a timer runs
    isProcessing,           \* useState isProcessing
    workerFrames,           \* the frames posted to the worker and not yet answered
    ticks,                  \* how often the timer has fired
    previewUrl,             \* useState previewUrl
    ocrProgress,            \* useState ocrProgress
    \* ---- history: per patient, created_at of the newest reading evaluated
    evaluatedAt,
    \* ---- history: the last operation with its inputs and results
    lastOp

evalVars == <<evalTruth, evalInput, srvOut, srvDone, monOut, monDone>>

storeVars == <<patientNotifications, lastCheckTimeRef, monPatient, monJoined, socketQueue>>

vnVars == <<vnLatest, vnAlerts, dismissedAlerts>>

serverVars == <<serverClock, posts, vitalsTable>>

mailVars == <<rateLimiter, mailLog>>

extractVars == <<exPc, exHF, exTess, exGem, exCalls, exAnswers>>

dbVars == <<dbPatients, dbNextId, dbBeds, dbVitals, addReq, delReq, vitReq>>

\* the parts that the specifications of the alerting core leave alone
bellVars == <<listeners, bellPatientId, bellSub, bellGen, notifications, notified, unsubscribed>>

viewVars == <<viewConnected, viewPatientId, viewJoined, viewQueue, latestVitals, vitalsHistory>>

camVars == <<isCapturing, intervalSees, isProcessing, workerFrames, ticks, previewUrl, ocrProgress>>

laterVars == <<dbVars, bellVars, viewVars, camVars, evaluatedAt>>

vars == <<evalVars, storeVars, vnVars, serverVars, mailVars, extractVars, laterVars, lastOp>>

None == <<>>
Some(x) == <<x>>
IsSome(o) == o # <<>>
Val(o) == o[1]

-----------------------------------------------------------------------------
(* Strings: characters, number formatting, String.split and parseInt        *)

DigitChars == <<"0", "1", "2", "3", "4", "5", "6", "7", "8", "9">>

HexChars == <<"0", "1", "2", "3", "4", "5", "6", "7", "8", "9",
              "a", "b", "c", "d", "e", "f">>

HexUpper == <<"0", "1", "2", "3", "4", "5", "6", "7", "8", "9",
              "A", "B", "C", "D", "E", "F">>

Range(s) == {s[i] : i \in 1..Len(s)}

\* value of character c as a digit of the radix, None when it is no digit
DigitOf(c, radix) ==
    IF radix = 10
    THEN IF c \in Range(DigitChars)
         THEN Some((CHOOSE i \in 1..10 : DigitChars[i] = c) - 1)
         ELSE None
    ELSE IF c \in Range(HexChars)
         THEN Some((CHOOSE i \in 1..16 : HexChars[i] = c) - 1)
         ELSE IF c \in Range(HexUpper)
              THEN Some((CHOOSE i \in 1..16 : HexUpper[i] = c) - 1)
              ELSE None

RECURSIVE NatToStr(_)
NatToStr(n) ==
    IF n < 10 THEN <<DigitChars[n + 1]>>
    ELSE NatToStr(n \div 10) \o <<DigitChars[(n % 10) + 1]>>

\* String(n) / `${n}` for an integer n
NumToStr(n) == IF n < 0 THEN <<"-">> \o NatToStr(-n) ELSE NatToStr(n)

\* s.split('/') : the components between the slashes; "".split('/') is [""]
RECURSIVE Split(_)
Split(s) ==
    IF s = <<>> THEN << <<>> >>
    ELSE LET rest == Split(Tail(s))
         IN  IF Head(s) = "/"
             THEN << <<>> >> \o rest
             ELSE << <<Head(s)>> \o Head(rest) >> \o Tail(rest)

\* parts[i] of a JavaScript array (0-based); undefined (None) past the end
At(parts, i) == IF i + 1 <= Len(parts) THEN Some(parts[i + 1]) ELSE None

RECURSIVE SkipSpaces(_)
SkipSpaces(s) ==
    IF s # <<>> /\ Head(s) = " " THEN SkipSpaces(Tail(s)) ELSE s

\* the value of the longest prefix of s made of digits of the radix,
\* acc the value read so far and seen whether a digit was read
RECURSIVE ReadDigits(_, _, _, _)
ReadDigits(s, radix, acc, seen) ==
    IF s # <<>> /\ IsSome(DigitOf(Head(s), radix))
    THEN ReadDigits(Tail(s), radix, acc * radix + Val(DigitOf(Head(s), radix)), TRUE)
    ELSE IF seen THEN Some(acc) ELSE None

parseInt_noDigitIsZero(x) ==
    IF x = None THEN None
    ELSE LET s0   == SkipSpaces(Val(x))
             neg  == s0 # <<>> /\ Head(s0) = "-"
             s1   == IF s0 # <<>> /\ Head(s0) \in {"+", "-"} THEN Tail(s0) ELSE s0
             hex  == Len(s1) >= 2 /\ s1[1] = "0" /\ s1[2] \in {"x", "X"}
             s2   == IF hex THEN Tail(Tail(s1)) ELSE s1
             mag  == ReadDigits(s2, IF hex THEN 16 ELSE 10, 0, FALSE)
         IN  IF mag = None THEN Some(0)
             ELSE IF neg THEN Some(-Val(mag)) ELSE mag

\* parseInt(x) without a radix: x undefined gives NaN; leading white space is
\* skipped, a sign is read, "0x"/"0X" selects radix 16, then the longest
\* prefix of digits is the value; no digit gives NaN (None).
parseInt(x) ==
    IF x = None THEN None
    ELSE LET s0   == SkipSpaces(Val(x))
             neg  == s0 # <<>> /\ Head(s0) = "-"
             s1   == IF s0 # <<>> /\ Head(s0) \in {"+", "-"} THEN Tail(s0) ELSE s0
             hex  == Len(s1) >= 2 /\ s1[1] = "0" /\ s1[2] \in {"x", "X"}
             s2   == IF hex THEN Tail(Tail(s1)) ELSE s1
             mag  == ReadDigits(s2, IF hex THEN 16 ELSE 10, 0, FALSE)
         IN  IF mag = None THEN None
             ELSE IF neg THEN Some(-Val(mag)) ELSE mag

-----------------------------------------------------------------------------
(* A JavaScript value used as a condition: null and "" are falsy            *)

Truthy(o) == IsSome(o) /\ Val(o) # <<>>

-----------------------------------------------------------------------------
(* server/index.js : the alert evaluator of the server                      *)

\* Alert thresholds (mirror frontend values)
ALERT_RANGES ==
    [HR      |-> [low |-> 60, high |-> 100, criticalLow |-> 50, criticalHigh |-> 120],
     Pulse   |-> [low |-> 60, high |-> 100, criticalLow |-> 50, criticalHigh |-> 120],
     SpO2    |-> [low |-> 90, high |-> 100, criticalLow |-> 85, criticalHigh |-> 100],
     ABP_Sys |-> [low |-> 90, high |-> 120, criticalLow |-> 70, criticalHigh |-> 180],
     PAP_Dia |-> [low |-> 4,  high |-> 12,  criticalLow |-> 2,  criticalHigh |-> 20],
     EtCO2   |-> [low |-> 35, high |-> 45,  criticalLow |-> 25, criticalHigh |-> 55],
     awRR    |-> [low |-> 12, high |-> 20,  criticalLow |-> 8,  criticalHigh |-> 25]]

\* pushAlert: the alert is appended; its id and timestamp are read from the
\* server's clock (Date.now(), new Date()), not from the reading
pushAlert(alerts, patientId, now, vitalKey, value, type, severity) ==
    Append(alerts,
           [id        |-> <<patientId, vitalKey, now>>,
            patientId |-> patientId,
            vital     |-> vitalKey,
            value     |-> value,
            type      |-> type,
            severity  |-> severity,
            timestamp |-> now])

\* server/index.js 679-686
srvHR(alerts, vital, now) ==
    IF IsSome(vital.hr)
    THEN LET v == Val(vital.hr)
         IN  IF v < ALERT_RANGES.HR.low \/ v > ALERT_RANGES.HR.high
             THEN LET severity == IF v < ALERT_RANGES.HR.criticalLow
                                     \/ v > ALERT_RANGES.HR.criticalHigh
                                  THEN "critical" ELSE "warning"
                      type == IF v < ALERT_RANGES.HR.low THEN "low" ELSE "high"
                  IN  pushAlert(alerts, vital.patient_id, now, "HR", v, type, severity)
             ELSE alerts
    ELSE alerts

\* server/index.js 688-695
srvPulse(alerts, vital, now) ==
    IF IsSome(vital.pulse)
    THEN LET v == Val(vital.pulse)
         IN  IF v < ALERT_RANGES.Pulse.low \/ v > ALERT_RANGES.Pulse.high
             THEN LET severity == IF v < ALERT_RANGES.Pulse.criticalLow
                                     \/ v > ALERT_RANGES.Pulse.criticalHigh
                                  THEN "critical" ELSE "warning"
                      type == IF v < ALERT_RANGES.Pulse.low THEN "low" ELSE "high"
                  IN  pushAlert(alerts, vital.patient_id, now, "Pulse", v, type, severity)
             ELSE alerts
    ELSE alerts

\* the SpO2 block written like the other scalar blocks, high side included
srvSpO2_withHigh(alerts, vital, now) ==
    IF IsSome(vital.spo2)
    THEN LET v == Val(vital.spo2)
         IN  IF v < ALERT_RANGES.SpO2.low \/ v > ALERT_RANGES.SpO2.high
             THEN LET severity == IF v < ALERT_RANGES.SpO2.criticalLow
                                     \/ v > ALERT_RANGES.SpO2.criticalHigh
                                  THEN "critical" ELSE "warning"
                      type == IF v < ALERT_RANGES.SpO2.low THEN "low" ELSE "high"
                  IN  pushAlert(alerts, vital.patient_id, now, "SpO2", v, type, severity)
             ELSE alerts
    ELSE alerts

\* server/index.js 697-703
srvSpO2(alerts, vital, now) ==
    IF IsSome(vital.spo2)
    THEN LET v == Val(vital.spo2)
         IN  IF v < ALERT_RANGES.SpO2.low
             THEN LET severity == IF v < ALERT_RANGES.SpO2.criticalLow
                                  THEN "critical" ELSE "warning"
                  IN  pushAlert(alerts, vital.patient_id, now, "SpO2", v, "low", severity)
             ELSE alerts
    ELSE alerts

\* server/index.js 705-713
srvABP(alerts, vital, now) ==
    IF Truthy(vital.abp)
    THEN LET parsed == parseInt(At(Split(Val(vital.abp)), 0))
         IN  IF IsSome(parsed)
                /\ (Val(parsed) < ALERT_RANGES.ABP_Sys.low
                    \/ Val(parsed) > ALERT_RANGES.ABP_Sys.high)
             THEN LET v == Val(parsed)
                      severity == IF v < ALERT_RANGES.ABP_Sys.criticalLow
                                     \/ v > ALERT_RANGES.ABP_Sys.criticalHigh
                                  THEN "critical" ELSE "warning"
                      type == IF v < ALERT_RANGES.ABP_Sys.low THEN "low" ELSE "high"
                  IN  pushAlert(alerts, vital.patient_id, now, "ABP Sys", v, type, severity)
             ELSE alerts
    ELSE alerts

srvPAP_systolic(alerts, vital, now) ==
    IF Truthy(vital.pap)
    THEN LET parsed == parseInt(At(Split(Val(vital.pap)), 0))
         IN  IF IsSome(parsed)
                /\ (Val(parsed) < ALERT_RANGES.PAP_Dia.low
                    \/ Val(parsed) > ALERT_RANGES.PAP_Dia.high)
             THEN LET v == Val(parsed)
                      severity == IF v < ALERT_RANGES.PAP_Dia.criticalLow
                                     \/ v > ALERT_RANGES.PAP_Dia.criticalHigh
                                  THEN "critical" ELSE "warning"
                      type == IF v < ALERT_RANGES.PAP_Dia.low THEN "low" ELSE "high"
                  IN  pushAlert(alerts, vital.patient_id, now, "PAP Dia", v, type, severity)
             ELSE alerts
    ELSE alerts

\* server/index.js 715-723
srvPAP(alerts, vital, now) ==
    IF Truthy(vital.pap)
    THEN LET parsed == parseInt(At(Split(Val(vital.pap)), 1))
         IN  IF IsSome(parsed)
                /\ (Val(parsed) < ALERT_RANGES.PAP_Dia.low
                    \/ Val(parsed) > ALERT_RANGES.PAP_Dia.high)
             THEN LET v == Val(parsed)
                      severity == IF v < ALERT_RANGES.PAP_Dia.criticalLow
                                     \/ v > ALERT_RANGES.PAP_Dia.criticalHigh
                                  THEN "critical" ELSE "warning"
                      type == IF v < ALERT_RANGES.PAP_Dia.low THEN "low" ELSE "high"
                  IN  pushAlert(alerts, vital.patient_id, now, "PAP Dia", v, type, severity)
             ELSE alerts
    ELSE alerts

\* server/index.js 725-732
srvEtCO2(alerts, vital, now) ==
    IF IsSome(vital.etco2)
    THEN LET v == Val(vital.etco2)
         IN  IF v < ALERT_RANGES.EtCO2.low \/ v > ALERT_RANGES.EtCO2.high
             THEN LET severity == IF v < ALERT_RANGES.EtCO2.criticalLow
                                     \/ v > ALERT_RANGES.EtCO2.criticalHigh
                                  THEN "critical" ELSE "warning"
                      type == IF v < ALERT_RANGES.EtCO2.low THEN "low" ELSE "high"
                  IN  pushAlert(alerts, vital.patient_id, now, "EtCO2", v, type, severity)
             ELSE alerts
    ELSE alerts

\* the awRR block with the critical bounds taken as critical (<=, >=)
srvAwRR_criticalInclusive(alerts, vital, now) ==
    IF IsSome(vital.awrr)
    THEN LET v == Val(vital.awrr)
         IN  IF v < ALERT_RANGES.awRR.low \/ v > ALERT_RANGES.awRR.high
             THEN LET severity == IF v <= ALERT_RANGES.awRR.criticalLow
                                     \/ v >= ALERT_RANGES.awRR.criticalHigh
                                  THEN "critical" ELSE "warning"
                      type == IF v < ALERT_RANGES.awRR.low THEN "low" ELSE "high"
                  IN  pushAlert(alerts, vital.patient_id, now, "awRR", v, type, severity)
             ELSE alerts
    ELSE alerts

\* server/index.js 734-741
srvAwRR(alerts, vital, now) ==
    IF IsSome(vital.awrr)
    THEN LET v == Val(vital.awrr)
         IN  IF v < ALERT_RANGES.awRR.low \/ v > ALERT_RANGES.awRR.high
             THEN LET severity == IF v < ALERT_RANGES.awRR.criticalLow
                                     \/ v > ALERT_RANGES.awRR.criticalHigh
                                  THEN "critical" ELSE "warning"
                      type == IF v < ALERT_RANGES.awRR.low THEN "low" ELSE "high"
                  IN  pushAlert(alerts, vital.patient_id, now, "awRR", v, type, severity)
             ELSE alerts
    ELSE alerts

generateAlertsForVitals_scalarsFirst(vital, now) ==
    srvPAP(srvABP(srvAwRR(srvEtCO2(srvSpO2(srvPulse(srvHR(<<>>,
        vital, now), vital, now), vital, now), vital, now), vital, now),
        vital, now), vital, now)

\* generateAlertsForVitals(vital): the blocks in the order of the source
generateAlertsForVitals(vital, now) ==
    srvAwRR(srvEtCO2(srvPAP(srvABP(srvSpO2(srvPulse(srvHR(<<>>,
        vital, now), vital, now), vital, now), vital, now), vital, now),
        vital, now), vital, now)

-----------------------------------------------------------------------------
(* PatientVitalMonitor.tsx : the evaluation made in the browser             *)

\* Normal ranges for vitals based on medical standards
VITAL_RANGES ==
    [HR      |-> [low |-> 60, high |-> 100, criticalLow |-> 50, criticalHigh |-> 120],
     Pulse   |-> [low |-> 60, high |-> 100, criticalLow |-> 50, criticalHigh |-> 120],
     SpO2    |-> [low |-> 90, high |-> 100, criticalLow |-> 85, criticalHigh |-> 100],
     ABP_Sys |-> [low |-> 90, high |-> 120, criticalLow |-> 70, criticalHigh |-> 180],
     PAP_Dia |-> [low |-> 4,  high |-> 12,  criticalLow |-> 2,  criticalHigh |-> 20],
     EtCO2   |-> [low |-> 35, high |-> 45,  criticalLow |-> 25, criticalHigh |-> 55],
     awRR    |-> [low |-> 12, high |-> 20,  criticalLow |-> 8,  criticalHigh |-> 25]]

\* if (!newAlerts.some(a => a.id === alertId)) newAlerts.push(alert)
pushOnce(newAlerts, alert) ==
    IF \E i \in 1..Len(newAlerts) : newAlerts[i].id = alert.id
    THEN newAlerts
    ELSE Append(newAlerts, alert)

\* the HR block with the normal bounds taken as alerting (<=, >=)
monHR_inclusive(newAlerts, latestVital, patientId) ==
    IF IsSome(latestVital.hr)
    THEN LET v == Val(latestVital.hr)
         IN  IF v <= VITAL_RANGES.HR.low \/ v >= VITAL_RANGES.HR.high
             THEN pushOnce(newAlerts,
                      [id        |-> <<patientId, "hr", latestVital.created_at>>,
                       patientId |-> patientId,
                       vital     |-> "HR",
                       value     |-> v,
                       type      |-> IF v <= VITAL_RANGES.HR.low THEN "low" ELSE "high",
                       severity  |-> IF v < VITAL_RANGES.HR.criticalLow
                                        \/ v > VITAL_RANGES.HR.criticalHigh
                                     THEN "critical" ELSE "warning",
                       timestamp |-> latestVital.created_at])
             ELSE newAlerts
    ELSE newAlerts

\* PatientVitalMonitor.tsx 80-97
monHR(newAlerts, latestVital, patientId) ==
    IF IsSome(latestVital.hr)
    THEN LET v == Val(latestVital.hr)
         IN  IF v < VITAL_RANGES.HR.low \/ v > VITAL_RANGES.HR.high
             THEN pushOnce(newAlerts,
                      [id        |-> <<patientId, "hr", latestVital.created_at>>,
                       patientId |-> patientId,
                       vital     |-> "HR",
                       value     |-> v,
                       type      |-> IF v < VITAL_RANGES.HR.low THEN "low" ELSE "high",
                       severity  |-> IF v < VITAL_RANGES.HR.criticalLow
                                        \/ v > VITAL_RANGES.HR.criticalHigh
                                     THEN "critical" ELSE "warning",
                       timestamp |-> latestVital.created_at])
             ELSE newAlerts
    ELSE newAlerts

\* PatientVitalMonitor.tsx 99-115
monPulse(newAlerts, latestVital, patientId) ==
    IF IsSome(latestVital.pulse)
    THEN LET v == Val(latestVital.pulse)
         IN  IF v < VITAL_RANGES.Pulse.low \/ v > VITAL_RANGES.Pulse.high
             THEN pushOnce(newAlerts,
                      [id        |-> <<patientId, "pulse", latestVital.created_at>>,
                       patientId |-> patientId,
                       vital     |-> "Pulse",
                       value     |-> v,
                       type      |-> IF v < VITAL_RANGES.Pulse.low THEN "low" ELSE "high",
                       severity  |-> IF v < VITAL_RANGES.Pulse.criticalLow
                                        \/ v > VITAL_RANGES.Pulse.criticalHigh
                                     THEN "critical" ELSE "warning",
                       timestamp |-> latestVital.created_at])
             ELSE newAlerts
    ELSE newAlerts

\* PatientVitalMonitor.tsx 117-133
monSpO2(newAlerts, latestVital, patientId) ==
    IF IsSome(latestVital.spo2)
    THEN LET v == Val(latestVital.spo2)
         IN  IF v < VITAL_RANGES.SpO2.low
             THEN pushOnce(newAlerts,
                      [id        |-> <<patientId, "spo2", latestVital.created_at>>,
                       patientId |-> patientId,
                       vital     |-> "SpO2",
                       value     |-> v,
                       type      |-> "low",
                       severity  |-> IF v < VITAL_RANGES.SpO2.criticalLow
                                     THEN "critical" ELSE "warning",
                       timestamp |-> latestVital.created_at])
             ELSE newAlerts
    ELSE newAlerts

\* PatientVitalMonitor.tsx 135-152
monABP(newAlerts, latestVital, patientId) ==
    IF Truthy(latestVital.abp)
    THEN LET parsed == parseInt(At(Split(Val(latestVital.abp)), 0))
         IN  IF IsSome(parsed)
                /\ (Val(parsed) < VITAL_RANGES.ABP_Sys.low
                    \/ Val(parsed) > VITAL_RANGES.ABP_Sys.high)
             THEN LET v == Val(parsed)
                  IN  pushOnce(newAlerts,
                      [id        |-> <<patientId, "abp", latestVital.created_at>>,
                       patientId |-> patientId,
                       vital     |-> "ABP Sys",
                       value     |-> v,
                       type      |-> IF v < VITAL_RANGES.ABP_Sys.low THEN "low" ELSE "high",
                       severity  |-> IF v < VITAL_RANGES.ABP_Sys.criticalLow
                                        \/ v > VITAL_RANGES.ABP_Sys.criticalHigh
                                     THEN "critical" ELSE "warning",
                       timestamp |-> latestVital.created_at])
             ELSE newAlerts
    ELSE newAlerts

\* PatientVitalMonitor.tsx 154-171
monPAP(newAlerts, latestVital, patientId) ==
    IF Truthy(latestVital.pap)
    THEN LET parsed == parseInt(At(Split(Val(latestVital.pap)), 1))
         IN  IF IsSome(parsed)
                /\ (Val(parsed) < VITAL_RANGES.PAP_Dia.low
                    \/ Val(parsed) > VITAL_RANGES.PAP_Dia.high)
             THEN LET v == Val(parsed)
                  IN  pushOnce(newAlerts,
                      [id        |-> <<patientId, "pap", latestVital.created_at>>,
                       patientId |-> patientId,
                       vital     |-> "PAP Dia",
                       value     |-> v,
                       type      |-> IF v < VITAL_RANGES.PAP_Dia.low THEN "low" ELSE "high",
                       severity  |-> IF v < VITAL_RANGES.PAP_Dia.criticalLow
                                        \/ v > VITAL_RANGES.PAP_Dia.criticalHigh
                                     THEN "critical" ELSE "warning",
                       timestamp |-> latestVital.created_at])
             ELSE newAlerts
    ELSE newAlerts

\* PatientVitalMonitor.tsx 173-189
monEtCO2(newAlerts, latestVital, patientId) ==
    IF IsSome(latestVital.etco2)
    THEN LET v == Val(latestVital.etco2)
         IN  IF v < VITAL_RANGES.EtCO2.low \/ v > VITAL_RANGES.EtCO2.high
             THEN pushOnce(newAlerts,
                      [id        |-> <<patientId, "etco2", latestVital.created_at>>,
                       patientId |-> patientId,
                       vital     |-> "EtCO2",
                       value     |-> v,
                       type      |-> IF v < VITAL_RANGES.EtCO2.low THEN "low" ELSE "high",
                       severity  |-> IF v < VITAL_RANGES.EtCO2.criticalLow
                                        \/ v > VITAL_RANGES.EtCO2.criticalHigh
                                     THEN "critical" ELSE "warning",
                       timestamp |-> latestVital.created_at])
             ELSE newAlerts
    ELSE newAlerts

\* PatientVitalMonitor.tsx 191-207
monAwRR(newAlerts, latestVital, patientId) ==
    IF IsSome(latestVital.awrr)
    THEN LET v == Val(latestVital.awrr)
         IN  IF v < VITAL_RANGES.awRR.low \/ v > VITAL_RANGES.awRR.high
             THEN pushOnce(newAlerts,
                      [id        |-> <<patientId, "awrr", latestVital.created_at>>,
                       patientId |-> patientId,
                       vital     |-> "awRR",
                       value     |-> v,
                       type      |-> IF v < VITAL_RANGES.awRR.low THEN "low" ELSE "high",
                       severity  |-> IF v < VITAL_RANGES.awRR.criticalLow
                                        \/ v > VITAL_RANGES.awRR.criticalHigh
                                     THEN "critical" ELSE "warning",
                       timestamp |-> latestVital.created_at])
             ELSE newAlerts
    ELSE newAlerts

\* the newAlerts list built by the effect, lines 78-207
monitorAlerts(latestVital, patientId) ==
    monAwRR(monEtCO2(monPAP(monABP(monSpO2(monPulse(monHR(<<>>,
        latestVital, patientId), latestVital, patientId), latestVital, patientId),
        latestVital, patientId), latestVital, patientId), latestVital, patientId),
        latestVital, patientId)

-----------------------------------------------------------------------------
(* unnamed/part_001 : VitalNotifications, the alert banner                  *)

BANNER_RANGES_minAsLow ==
    [HR      |-> [min |-> 60, max |-> 100, low |-> 60, high |-> 100],
     Pulse   |-> [min |-> 60, max |-> 100, low |-> 60, high |-> 100],
     SpO2    |-> [min |-> 95, max |-> 100, low |-> 95, high |-> 100],
     ABP_Sys |-> [min |-> 90, max |-> 120, low |-> 90, high |-> 120],
     PAP_Dia |-> [min |-> 4,  max |-> 12,  low |-> 4,  high |-> 12],
     EtCO2   |-> [min |-> 35, max |-> 45,  low |-> 35, high |-> 45],
     awRR    |-> [min |-> 12, max |-> 20,  low |-> 12, high |-> 20]]

\* VITAL_RANGES of VitalNotifications (its own table: min, max, low, high)
BANNER_RANGES ==
    [HR      |-> [min |-> 60, max |-> 100, low |-> 60, high |-> 100],
     Pulse   |-> [min |-> 60, max |-> 100, low |-> 60, high |-> 100],
     SpO2    |-> [min |-> 95, max |-> 100, low |-> 90, high |-> 100],
     ABP_Sys |-> [min |-> 90, max |-> 120, low |-> 90, high |-> 120],
     PAP_Dia |-> [min |-> 4,  max |-> 12,  low |-> 4,  high |-> 12],
     EtCO2   |-> [min |-> 35, max |-> 45,  low |-> 35, high |-> 45],
     awRR    |-> [min |-> 12, max |-> 20,  low |-> 12, high |-> 20]]

\* unnamed/part_001 66-79
vnHR(newAlerts, latestVital) ==
    IF IsSome(latestVital.hr)
    THEN LET v == Val(latestVital.hr)
         IN  IF v < BANNER_RANGES.HR.low \/ v > BANNER_RANGES.HR.high
             THEN Append(newAlerts,
                      [id        |-> <<"hr", latestVital.created_at>>,
                       type      |-> IF v < BANNER_RANGES.HR.low THEN "low" ELSE "high",
                       vital     |-> "HR",
                       value     |-> v,
                       timestamp |-> latestVital.created_at,
                       severity  |-> IF v < 50 \/ v > 120 THEN "critical" ELSE "warning"])
             ELSE newAlerts
    ELSE newAlerts

\* unnamed/part_001 81-93
vnPulse(newAlerts, latestVital) ==
    IF IsSome(latestVital.pulse)
    THEN LET v == Val(latestVital.pulse)
         IN  IF v < BANNER_RANGES.Pulse.low \/ v > BANNER_RANGES.Pulse.high
             THEN Append(newAlerts,
                      [id        |-> <<"pulse", latestVital.created_at>>,
                       type      |-> IF v < BANNER_RANGES.Pulse.low THEN "low" ELSE "high",
                       vital     |-> "Pulse",
                       value     |-> v,
                       timestamp |-> latestVital.created_at,
                       severity  |-> IF v < 50 \/ v > 120 THEN "critical" ELSE "warning"])
             ELSE newAlerts
    ELSE newAlerts

\* unnamed/part_001 95-107
vnSpO2(newAlerts, latestVital) ==
    IF IsSome(latestVital.spo2)
    THEN LET v == Val(latestVital.spo2)
         IN  IF v < BANNER_RANGES.SpO2.low
             THEN Append(newAlerts,
                      [id        |-> <<"spo2", latestVital.created_at>>,
                       type      |-> "low",
                       vital     |-> "SpO2",
                       value     |-> v,
                       timestamp |-> latestVital.created_at,
                       severity  |-> IF v < 85 THEN "critical" ELSE "warning"])
             ELSE newAlerts
    ELSE newAlerts

\* unnamed/part_001 109-124
vnABP(newAlerts, latestVital) ==
    IF Truthy(latestVital.abp)
    THEN LET parsed == parseInt(At(Split(Val(latestVital.abp)), 0))
         IN  IF IsSome(parsed)
             THEN LET v == Val(parsed)
                  IN  IF v < BANNER_RANGES.ABP_Sys.low \/ v > BANNER_RANGES.ABP_Sys.high
                      THEN Append(newAlerts,
                               [id        |-> <<"abp", latestVital.created_at>>,
                                type      |-> IF v < BANNER_RANGES.ABP_Sys.low THEN "low" ELSE "high",
                                vital     |-> "ABP Sys",
                                value     |-> v,
                                timestamp |-> latestVital.created_at,
                                severity  |-> IF v < 70 \/ v > 180 THEN "critical" ELSE "warning"])
                      ELSE newAlerts
             ELSE newAlerts
    ELSE newAlerts

\* unnamed/part_001 126-141
vnPAP(newAlerts, latestVital) ==
    IF Truthy(latestVital.pap)
    THEN LET parsed == parseInt(At(Split(Val(latestVital.pap)), 1))
         IN  IF IsSome(parsed)
             THEN LET v == Val(parsed)
                  IN  IF v < BANNER_RANGES.PAP_Dia.low \/ v > BANNER_RANGES.PAP_Dia.high
                      THEN Append(newAlerts,
                               [id        |-> <<"pap", latestVital.created_at>>,
                                type      |-> IF v < BANNER_RANGES.PAP_Dia.low THEN "low" ELSE "high",
                                vital     |-> "PAP Dia",
                                value     |-> v,
                                timestamp |-> latestVital.created_at,
                                severity  |-> IF v < 2 \/ v > 20 THEN "critical" ELSE "warning"])
                      ELSE newAlerts
             ELSE newAlerts
    ELSE newAlerts

\* unnamed/part_001 143-155
vnEtCO2(newAlerts, latestVital) ==
    IF IsSome(latestVital.etco2)
    THEN LET v == Val(latestVital.etco2)
         IN  IF v < BANNER_RANGES.EtCO2.low \/ v > BANNER_RANGES.EtCO2.high
             THEN Append(newAlerts,
                      [id        |-> <<"etco2", latestVital.created_at>>,
                       type      |-> IF v < BANNER_RANGES.EtCO2.low THEN "low" ELSE "high",
                       vital     |-> "EtCO2",
                       value     |-> v,
                       timestamp |-> latestVital.created_at,
                       severity  |-> IF v < 25 \/ v > 55 THEN "critical" ELSE "warning"])
             ELSE newAlerts
    ELSE newAlerts

\* unnamed/part_001 157-169
vnAwRR(newAlerts, latestVital) ==
    IF IsSome(latestVital.awrr)
    THEN LET v == Val(latestVital.awrr)
         IN  IF v < BANNER_RANGES.awRR.low \/ v > BANNER_RANGES.awRR.high
             THEN Append(newAlerts,
                      [id        |-> <<"awrr", latestVital.created_at>>,
                       type      |-> IF v < BANNER_RANGES.awRR.low THEN "low" ELSE "high",
                       vital     |-> "awRR",
                       value     |-> v,
                       timestamp |-> latestVital.created_at,
                       severity  |-> IF v < 8 \/ v > 25 THEN "critical" ELSE "warning"])
             ELSE newAlerts
    ELSE newAlerts

\* the newAlerts list built by the effect, lines 61-169
bannerAlerts(latestVital) ==
    vnAwRR(vnEtCO2(vnPAP(vnABP(vnSpO2(vnPulse(vnHR(<<>>,
        latestVital), latestVital), latestVital), latestVital), latestVital),
        latestVital), latestVital)

-----------------------------------------------------------------------------
(* LiveMonitor.tsx : the status colour of the live tiles                    *)

\* VITAL_RANGES of LiveMonitor (its own table)
LIVE_RANGES ==
    [hr    |-> [low |-> 60, high |-> 100, critical_low |-> 40, critical_high |-> 120],
     spo2  |-> [low |-> 95, critical_low |-> 90],
     etco2 |-> [low |-> 35, high |-> 45, critical_low |-> 30, critical_high |-> 50],
     awrr  |-> [low |-> 12, high |-> 20, critical_low |-> 8, critical_high |-> 25]]

\* getVitalStatus(value, type), lines 62-78
getVitalStatus(value, type) ==
    IF value = None THEN "normal"
    ELSE LET v == Val(value)
             r == LIVE_RANGES[type]
         IN  IF type \in {"hr", "etco2", "awrr"}
             THEN IF v < r.critical_low \/ v > r.critical_high THEN "critical"
                  ELSE IF v < r.low \/ v > r.high THEN "warning"
                  ELSE "normal"
             ELSE IF v < r.critical_low THEN "critical"
                  ELSE IF v < r.low THEN "warning"
                  ELSE "normal"

-----------------------------------------------------------------------------
(* Readings                                                                 *)

\* the seven vital kinds, by the key the alerts carry, in the order of spec 4.1
Kinds == <<"HR", "Pulse", "SpO2", "ABP Sys", "PAP Dia", "EtCO2", "awRR">>

KindSet == Range(Kinds)

\* the range table of the specification (section 4.1), which the claims quote
RangeSpec ==
    [k \in KindSet |->
       CASE k = "HR"      -> [normalLow |-> 60, normalHigh |-> 100, criticalLow |-> 50, criticalHigh |-> 120]
         [] k = "Pulse"   -> [normalLow |-> 60, normalHigh |-> 100, criticalLow |-> 50, criticalHigh |-> 120]
         [] k = "SpO2"    -> [normalLow |-> 90, normalHigh |-> 100, criticalLow |-> 85, criticalHigh |-> 100]
         [] k = "ABP Sys" -> [normalLow |-> 90, normalHigh |-> 120, criticalLow |-> 70, criticalHigh |-> 180]
         [] k = "PAP Dia" -> [normalLow |-> 4,  normalHigh |-> 12,  criticalLow |-> 2,  criticalHigh |-> 20]
         [] k = "EtCO2"   -> [normalLow |-> 35, normalHigh |-> 45,  criticalLow |-> 25, criticalHigh |-> 55]
         [] k = "awRR"    -> [normalLow |-> 12, normalHigh |-> 20,  criticalLow |-> 8,  criticalHigh |-> 25]]

\* a blood pressure as the monitor prints it: "systolic/diastolic"
FormatBP(sys, dia) == NumToStr(sys) \o <<"/">> \o NumToStr(dia)

\* the values a vital is given: LowestVital .. MaxVital, beyond every bound
\* of the range table on both sides
MaxVital == 182
LowMargin == 1
LowestVital == 0 - LowMargin
VitalValues == LowestVital..MaxVital

\* the numbers of the test fixture (test-notifications.js), of a reading with
\* every vital in range, and of a reading with no vital at all
FixtureTruth ==
    [k \in KindSet |->
       CASE k = "HR"      -> Some(45)
         [] k = "Pulse"   -> Some(45)
         [] k = "SpO2"    -> Some(85)
         [] k = "ABP Sys" -> Some(85)
         [] k = "PAP Dia" -> Some(13)
         [] k = "EtCO2"   -> Some(50)
         [] k = "awRR"    -> Some(25)]

NormalTruth ==
    [k \in KindSet |->
       CASE k = "HR"      -> Some(72)
         [] k = "Pulse"   -> Some(72)
         [] k = "SpO2"    -> Some(98)
         [] k = "ABP Sys" -> Some(118)
         [] k = "PAP Dia" -> Some(8)
         [] k = "EtCO2"   -> Some(40)
         [] k = "awRR"    -> Some(16)]

AbsentTruth == [k \in KindSet |-> None]

\* the fixture with the airway respiratory rate on its upper normal bound
EdgeTruth == [FixtureTruth EXCEPT !["awRR"] = Some(20)]

BaseTruths == {FixtureTruth, NormalTruth, AbsentTruth, EdgeTruth}

\* strings of the blood-pressure columns from which no number can be read at
\* index 0 (arterial) resp. index 1 (pulmonary)
NotANumber == <<"n", "o", "t", "-", "a", "-", "n", "u", "m", "b", "e", "r">>

UnreadableABP == { <<>>, <<"/", "6", "0">>, NotANumber \o <<"/", "6", "0">> }

UnreadablePAP == { <<>>, <<"1", "5">>, <<"1", "5", "/">>,
                   <<"1", "5", "/">> \o NotANumber }

\* the readings (rows of the vitals table) that carry the numbers of truth
ReadingsOf(truth, pid, t) ==
    { [patient_id |-> pid,
       hr         |-> truth["HR"],
       pulse      |-> truth["Pulse"],
       spo2       |-> truth["SpO2"],
       abp        |-> abp,
       pap        |-> pap,
       etco2      |-> truth["EtCO2"],
       awrr       |-> truth["awRR"],
       created_at |-> t] :
      abp \in IF IsSome(truth["ABP Sys"])
              THEN { Some(FormatBP(Val(truth["ABP Sys"]), 60)) }
              ELSE { None } \cup { Some(u) : u \in UnreadableABP },
      pap \in IF IsSome(truth["PAP Dia"])
              THEN { Some(FormatBP(15, Val(truth["PAP Dia"]))) }
              ELSE { None } \cup { Some(u) : u \in UnreadablePAP } }

\* the test fixture: {patient_id 1, hr 45, pulse 45, spo2 85, abp "85/60",
\* pap "15/13", etco2 50, awrr 25}
FixtureReading == CHOOSE r \in ReadingsOf(FixtureTruth, 1, 1) : TRUE

-----------------------------------------------------------------------------
(* PatientVitalMonitor.tsx : the per-patient notification store             *)

Patients == {1, 2}

\* Map.set(key, value) and Map.delete(key) on a Map held as a function
mapSet(map, key, value) ==
    [q \in DOMAIN map \cup {key} |-> IF q = key THEN value ELSE map[q]]

mapDelete(map, key) == [q \in DOMAIN map \ {key} |-> map[q]]

\* patientNotifications.get(patientId) || []
getPatientNotifications(store, patientId) ==
    IF patientId \in DOMAIN store THEN store[patientId] ELSE <<>>

clearPatientNotifications_everyone(store, patientId) == <<>>

\* patientNotifications.delete(patientId)
clearPatientNotifications(store, patientId) == mapDelete(store, patientId)

\* patientNotifications.set(patientId, [...existingAlerts, alert])
addManualAlert(store, patientId, alert) ==
    mapSet(store, patientId,
           Append(getPatientNotifications(store, patientId), alert))

storeAlerts_emptyResetsAll(store, patientId, newAlerts) ==
    IF Len(newAlerts) > 0
    THEN mapSet(store, patientId, newAlerts)
    ELSE <<>>

\* "Store alerts for this patient": set the new list, or delete the entry
\* when the new list is empty
storeAlerts(store, patientId, newAlerts) ==
    IF Len(newAlerts) > 0
    THEN mapSet(store, patientId, newAlerts)
    ELSE IF patientId \in DOMAIN store
         THEN mapDelete(store, patientId)
         ELSE store

StoreInit ==
    /\ patientNotifications = <<>>
    /\ lastCheckTimeRef = 0
    /\ monPatient = None
    /\ monJoined = FALSE
    /\ socketQueue = <<>>

\* The component renders with new props (patient, vitals); latest is the
\* last element of vitals, None when vitals is empty.  created_at is held as
\* the number new Date(created_at).getTime() gives.
\*   effect [vitals, patient]: evaluate the latest reading if it is newer
\*     than the last one checked, and store the result;
\*   effect [patient] (only when patient changed): the old socket is
\*     disconnected, what was in flight to it is lost, and a new socket asks
\*     to join the patient's room.
MonitorProps(patient, latest) ==
    LET runs == /\ IsSome(patient) /\ IsSome(latest)
                /\ Val(latest).created_at > lastCheckTimeRef
        newAlerts == IF runs THEN monitorAlerts(Val(latest), Val(patient)) ELSE <<>>
    IN  /\ IF runs
           THEN /\ lastCheckTimeRef' = Val(latest).created_at
                /\ patientNotifications' =
                       storeAlerts(patientNotifications, Val(patient), newAlerts)
           ELSE UNCHANGED <<lastCheckTimeRef, patientNotifications>>
        /\ IF patient # monPatient
           THEN /\ monPatient' = patient
                /\ monJoined' = FALSE
                /\ socketQueue' = <<>>
           ELSE UNCHANGED <<monPatient, monJoined, socketQueue>>
        /\ lastOp' = [op |-> "monitor", patient |-> patient, reading |-> latest,
                      evaluated |-> runs, alerts |-> newAlerts]

\* the server handles join-patient of the component's socket
ServerJoin ==
    /\ IsSome(monPatient) /\ ~monJoined
    /\ monJoined' = TRUE
    /\ lastOp' = [op |-> "join", patient |-> monPatient]
    /\ UNCHANGED <<patientNotifications, lastCheckTimeRef, monPatient, socketQueue>>

\* onVitalAlert: a vital-alert event reaches the component's socket
OnVitalAlert ==
    /\ socketQueue # <<>>
    /\ LET alert == Head(socketQueue)
       IN  /\ patientNotifications' =
                  IF IsSome(monPatient) /\ alert.patientId = Val(monPatient)
                  THEN addManualAlert(patientNotifications, Val(monPatient), alert)
                  ELSE patientNotifications
           /\ lastOp' = [op |-> "vital-alert", patient |-> monPatient, alert |-> alert]
    /\ socketQueue' = Tail(socketQueue)
    /\ UNCHANGED <<lastCheckTimeRef, monPatient, monJoined>>

\* a caller (the notification bell's "Clear all") clears a patient
Clear(patientId) ==
    /\ patientNotifications' = clearPatientNotifications(patientNotifications, patientId)
    /\ lastOp' = [op |-> "clear", patient |-> Some(patientId)]
    /\ UNCHANGED <<lastCheckTimeRef, monPatient, monJoined, socketQueue>>

-----------------------------------------------------------------------------
(* unnamed/part_001 : the state of VitalNotifications                       *)

IdsOf(alerts) == {alerts[i].id : i \in 1..Len(alerts)}

KindsOf(alerts) == {alerts[i].vital : i \in 1..Len(alerts)}

\* the updater handed to setAlerts: previous alerts of the kinds that the new
\* evaluation does not alert on are kept, the new alerts are appended, and
\* dismissed ids are filtered out
bannerUpdate(prevAlerts, newAlerts, dismissed) ==
    LET vitalTypes == KindsOf(newAlerts)
        filteredPrev == SelectSeq(prevAlerts, LAMBDA a : a.vital \notin vitalTypes)
    IN  SelectSeq(filteredPrev \o newAlerts, LAMBDA a : a.id \notin dismissed)

\* const activeAlerts = alerts.filter(a => !dismissedAlerts.has(a.id))
activeAlerts(alerts, dismissed) == SelectSeq(alerts, LAMBDA a : a.id \notin dismissed)

\* the effect [vitals, dismissedAlerts]
bannerEffect(latest, alerts, dismissed) ==
    IF latest = None THEN alerts
    ELSE bannerUpdate(alerts, bannerAlerts(Val(latest)), dismissed)

BannerInit ==
    /\ vnLatest = None
    /\ vnAlerts = <<>>
    /\ dismissedAlerts = {}

\* the banner renders with a new vitals prop, latest = vitals[0]
BannerProps(latest) ==
    /\ vnLatest' = latest
    /\ vnAlerts' = bannerEffect(latest, vnAlerts, dismissedAlerts)
    /\ lastOp' = [op |-> "banner", reading |-> latest,
                  alerts |-> IF latest = None THEN <<>> ELSE bannerAlerts(Val(latest))]
    /\ UNCHANGED dismissedAlerts

\* dismissAlert(id) from the X button of a displayed alert; the change of
\* dismissedAlerts makes the effect run again on the same vitals
BannerDismiss(id) ==
    /\ id \in IdsOf(activeAlerts(vnAlerts, dismissedAlerts))
    /\ dismissedAlerts' = dismissedAlerts \cup {id}
    /\ vnAlerts' = bannerEffect(vnLatest,
                                SelectSeq(vnAlerts, LAMBDA a : a.id # id),
                                dismissedAlerts')
    /\ lastOp' = [op |-> "dismiss", id |-> id]
    /\ UNCHANGED vnLatest

-----------------------------------------------------------------------------
(* server/index.js : POST /api/vitals                                       *)

\* a number used as a condition: null, undefined and 0 are falsy
TruthyNum(o) == IsSome(o) /\ Val(o) # 0

\* vital.source || 'manual'
sourceOf(vital) ==
    IF "source" \in DOMAIN vital /\ vital.source \notin {None, Some("")}
    THEN Val(vital.source) ELSE "manual"

completeVital_positiveOnly(vital, clock) ==
    [patient_id |-> IF TruthyNum(vital.patient_id) THEN Val(vital.patient_id) ELSE 1,
     hr         |-> IF TruthyNum(vital.hr) /\ Val(vital.hr) > 0 /\ Val(vital.hr) < 300
                    THEN vital.hr ELSE None,
     pulse      |-> IF TruthyNum(vital.pulse) /\ Val(vital.pulse) > 0 /\ Val(vital.pulse) < 300
                    THEN vital.pulse ELSE None,
     spo2       |-> IF TruthyNum(vital.spo2) /\ Val(vital.spo2) > 0 /\ Val(vital.spo2) <= 100
                    THEN vital.spo2 ELSE None,
     abp        |-> IF Truthy(vital.abp) THEN vital.abp ELSE None,
     pap        |-> IF Truthy(vital.pap) THEN vital.pap ELSE None,
     etco2      |-> IF TruthyNum(vital.etco2) /\ Val(vital.etco2) > 0 THEN vital.etco2 ELSE None,
     awrr       |-> IF TruthyNum(vital.awrr) /\ Val(vital.awrr) > 0 THEN vital.awrr ELSE None,
     source     |-> sourceOf(vital),
     created_at |-> IF TruthyNum(vital.created_at) THEN Val(vital.created_at) ELSE clock]

\* the values inserted and emitted for one element of the request body
completeVital(vital, clock) ==
    [patient_id |-> IF TruthyNum(vital.patient_id) THEN Val(vital.patient_id) ELSE 1,
     hr         |-> IF TruthyNum(vital.hr) /\ Val(vital.hr) > 0 /\ Val(vital.hr) < 300
                    THEN vital.hr ELSE None,
     pulse      |-> IF TruthyNum(vital.pulse) /\ Val(vital.pulse) > 0 /\ Val(vital.pulse) < 300
                    THEN vital.pulse ELSE None,
     spo2       |-> IF TruthyNum(vital.spo2) /\ Val(vital.spo2) > 0 /\ Val(vital.spo2) <= 100
                    THEN vital.spo2 ELSE None,
     abp        |-> IF Truthy(vital.abp) THEN vital.abp ELSE None,
     pap        |-> IF Truthy(vital.pap) THEN vital.pap ELSE None,
     etco2      |-> IF TruthyNum(vital.etco2) THEN vital.etco2 ELSE None,
     awrr       |-> IF TruthyNum(vital.awrr) THEN vital.awrr ELSE None,
     source     |-> sourceOf(vital),
     created_at |-> IF TruthyNum(vital.created_at) THEN Val(vital.created_at) ELSE clock]

\* the room `patient-${patientId}`; 0 stands for io.emit to every socket
RoomOf(patientId) == patientId
Everyone == 0

emitsFor_roomOnly(cv, clock) ==
    LET alerts == generateAlertsForVitals(cv, clock)
    IN  IF cv.patient_id # 0
        THEN << [event |-> "vital-update", room |-> RoomOf(cv.patient_id), payload |-> cv] >>
             \o [i \in 1..Len(alerts) |->
                    [event |-> "vital-alert", room |-> RoomOf(cv.patient_id),
                     payload |-> alerts[i]]]
        ELSE <<>>

\* what the loop body emits for one inserted element, in order: vital-update
\* to every socket, vital-update to the patient's room, then one vital-alert
\* per generated alert to the patient's room
emitsFor(cv, clock) ==
    LET alerts == generateAlertsForVitals(cv, clock)
    IN  << [event |-> "vital-update", room |-> Everyone, payload |-> cv] >>
        \o (IF cv.patient_id # 0
            THEN << [event |-> "vital-update", room |-> RoomOf(cv.patient_id), payload |-> cv] >>
                 \o [i \in 1..Len(alerts) |->
                        [event |-> "vital-alert", room |-> RoomOf(cv.patient_id),
                         payload |-> alerts[i]]]
            ELSE <<>>)

deliveredTo_anyRoom(emits, room, event) ==
    LET hits == SelectSeq(emits, LAMBDA e : e.event = event)
    IN  [i \in 1..Len(hits) |-> hits[i].payload]

\* the events of a list of emits that reach a socket that joined room
deliveredTo(emits, room, event) ==
    LET hits == SelectSeq(emits, LAMBDA e : e.event = event /\ e.room = room)
    IN  [i \in 1..Len(hits) |-> hits[i].payload]

ServerInit ==
    /\ serverClock = 1
    /\ posts = 0
    /\ vitalsTable = [q \in Patients |-> 0]

\* What goes wrong while a request is handled, at most one thing:
\*   "none"
\*   "insert"     connection.query of element at throws
\*   "emit-all"   io.emit('vital-update') of element at throws
\*   "emit-room"  io.to(room).emit('vital-update') of element at throws
\*   "alerts"     inside the try block of element at: generateAlertsForVitals
\*                throws (n = 0), or the emit of vital-alert number n + 1 does
NoFault == [kind |-> "none", at |-> 0, n |-> 0]

\* the faults that leave the loop, to the catch that rolls back
Aborts(fault) == fault.kind \in {"insert", "emit-all", "emit-room"}

\* how many of the emits of element i the loop body gets to make
emitsKept(i, all, fault) ==
    IF fault.kind = "none" \/ i # fault.at THEN Len(all)
    ELSE IF fault.kind = "emit-room" THEN 1
    ELSE IF fault.kind = "alerts" THEN 2 + fault.n
    ELSE 0

\* the emits of the elements 1..n of a request body
RECURSIVE emitsWithFault(_, _, _, _)
emitsWithFault(vitalsArray, n, clock, fault) ==
    IF n = 0 THEN <<>>
    ELSE LET all == emitsFor(completeVital(vitalsArray[n], clock), clock)
         IN  emitsWithFault(vitalsArray, n - 1, clock, fault)
             \o SubSeq(all, 1, emitsKept(n, all, fault))

\* the emits of the elements 1..n when nothing goes wrong
emitsOfBody(vitalsArray, n, clock) == emitsWithFault(vitalsArray, n, clock, NoFault)

\* POST /api/vitals with body vitalsArray and the fault that happens.  An
\* empty body is answered 400.  Otherwise the rows are inserted and their
\* events emitted in turn; a fault that leaves the loop rolls the rows back
\* and the answer is 500; else commit stores the rows and the answer is 201.
PostVitals(vitalsArray, fault) ==
    /\ posts' = posts + 1
    /\ UNCHANGED serverClock
    /\ IF Len(vitalsArray) = 0
       THEN /\ lastOp' = [op |-> "post", body |-> vitalsArray, status |-> 400,
                          emits |-> <<>>, fault |-> fault]
            /\ UNCHANGED <<vitalsTable, socketQueue>>
       ELSE LET reached == IF Aborts(fault) THEN fault.at ELSE Len(vitalsArray)
                emits   == emitsWithFault(vitalsArray, reached, serverClock, fault)
            IN  /\ socketQueue' =
                       IF IsSome(monPatient) /\ monJoined
                       THEN socketQueue \o deliveredTo(emits, RoomOf(Val(monPatient)), "vital-alert")
                       ELSE socketQueue
                /\ vitalsTable' =
                       IF ~Aborts(fault)
                       THEN [q \in Patients |->
                               vitalsTable[q]
                               + Cardinality({i \in 1..Len(vitalsArray) :
                                     completeVital(vitalsArray[i], serverClock).patient_id = q})]
                       ELSE vitalsTable
                /\ lastOp' = [op |-> "post", body |-> vitalsArray,
                              status |-> IF ~Aborts(fault) THEN 201 ELSE 500,
                              emits |-> emits, fault |-> fault]

\* the request when only an insert can fail.  failAt = 0: every insert
\* succeeds; failAt = i: the insert of element i throws.
PostVitalsCore(vitalsArray, failAt) ==
    PostVitals(vitalsArray,
               IF failAt = 0 THEN NoFault
               ELSE [kind |-> "insert", at |-> failAt, n |-> 0])

-----------------------------------------------------------------------------
(* The dedup & rate limiter and the email channel of the notification       *)
(* dispatcher, as sections 4.3 and 4.4 of the specification state them: no  *)
(* file under src holds them.  The server's clock counts minutes here.      *)

\* the cooldown of the email channel: 5 minutes
Cooldown == 5

\* the key (subject, vital kind) of an alert
KeyOf(alert) == <<alert.patientId, alert.vital>>

shouldDeliver_pastCooldownOnly(limiter, key, now) ==
    key \notin DOMAIN limiter \/ now - limiter[key] > Cooldown

\* true iff no prior entry exists, or now - lastEntry >= cooldownDuration
shouldDeliver(limiter, key, now) ==
    key \notin DOMAIN limiter \/ now - limiter[key] >= Cooldown

\* the entry is created on the first delivery and overwritten afterwards
recordDelivery(limiter, key, now) == mapSet(limiter, key, now)

MailInit ==
    /\ rateLimiter = <<>>
    /\ mailLog = <<>>

\* the alerts evaluated for the elements 1..n of a request body, in order
RECURSIVE alertsOfBody(_, _, _)
alertsOfBody(vitalsArray, n, clock) ==
    IF n = 0 THEN <<>>
    ELSE alertsOfBody(vitalsArray, n - 1, clock)
         \o generateAlertsForVitals(completeVital(vitalsArray[n], clock), clock)

RECURSIVE dispatchEmails_recordsAttempts(_, _, _, _, _, _)
dispatchEmails_recordsAttempts(alerts, n, sendOk, now, limiter, log) ==
    IF n = 0 THEN [limiter |-> limiter, log |-> log]
    ELSE LET before == dispatchEmails_recordsAttempts(alerts, n - 1, sendOk, now, limiter, log)
             key    == KeyOf(alerts[n])
         IN  IF key \notin DOMAIN before.limiter \/ now - before.limiter[key] >= Cooldown
             THEN [limiter |-> mapSet(before.limiter, key, now),
                   log     |-> Append(before.log,
                                      [key |-> key, at |-> now, ok |-> sendOk[n]])]
             ELSE before

\* side effect 2 of dispatch for the alerts 1..n: consult the limiter; if it
\* permits, send; on a successful send, record the delivery.  sendOk[i] is
\* the outcome the transport gives for alert i if it is sent.  (A failed
\* name lookup only changes the text of the message.)
RECURSIVE dispatchEmails(_, _, _, _, _, _)
dispatchEmails(alerts, n, sendOk, now, limiter, log) ==
    IF n = 0 THEN [limiter |-> limiter, log |-> log]
    ELSE LET before == dispatchEmails(alerts, n - 1, sendOk, now, limiter, log)
             key    == KeyOf(alerts[n])
         IN  IF shouldDeliver(before.limiter, key, now)
             THEN [limiter |-> IF sendOk[n]
                               THEN recordDelivery(before.limiter, key, now)
                               ELSE before.limiter,
                   log     |-> Append(before.log,
                                      [key |-> key, at |-> now, ok |-> sendOk[n]])]
             ELSE before

\* POST /api/vitals of a server that dispatches: the handler, and the email
\* channel for the alerts of the elements it got to.  The transport is up
\* or down for the time of the request.
NotifyPost(vitalsArray, failAt) ==
    /\ PostVitalsCore(vitalsArray, failAt)
    /\ LET done   == IF failAt = 0 THEN Len(vitalsArray) ELSE failAt - 1
           alerts == alertsOfBody(vitalsArray, done, serverClock)
       IN  \E up \in BOOLEAN :
              LET sendOk == [i \in 1..Len(alerts) |-> up]
                  r == dispatchEmails(alerts, Len(alerts), sendOk, serverClock,
                                      rateLimiter, mailLog)
              IN  /\ rateLimiter' = r.limiter
                  /\ mailLog' = r.log

\* a minute passes
Tick ==
    /\ serverClock' = serverClock + 1
    /\ lastOp' = [op |-> "tick"]
    /\ UNCHANGED <<posts, vitalsTable, mailVars>>

-----------------------------------------------------------------------------
(* server/index.js : POST /api/extract-vitals                               *)

\* the keys of the vitals object
VitalKeys == {"HR", "Pulse", "SpO2", "ABP", "PAP", "EtCO2", "awRR"}

\* let vitals = { HR: null, ... }
NoVitals == [k \in VitalKeys |-> None]

\* obj.key of a parsed object: undefined when the key is missing
Get(obj, key) == IF key \in DOMAIN obj THEN obj[key] ELSE None

\* a || b || c || null on numbers, and on strings
OrNum(a, b, c) ==
    IF TruthyNum(a) THEN a ELSE IF TruthyNum(b) THEN b ELSE IF TruthyNum(c) THEN c ELSE None
OrStr(a, b, c) ==
    IF Truthy(a) THEN a ELSE IF Truthy(b) THEN b ELSE IF Truthy(c) THEN c ELSE None

\* "Normalize keys and merge", lines 343-351 (and 499-507 for Gemini)
normalizeVitals(parsedVitals) ==
    [HR    |-> OrNum(Get(parsedVitals, "HR"), Get(parsedVitals, "hr"), None),
     Pulse |-> OrNum(Get(parsedVitals, "Pulse"), Get(parsedVitals, "pulse"), None),
     SpO2  |-> OrNum(Get(parsedVitals, "SpO2"), Get(parsedVitals, "spo2"), None),
     ABP   |-> OrStr(Get(parsedVitals, "ABP"), Get(parsedVitals, "abp"), Get(parsedVitals, "BP")),
     PAP   |-> OrStr(Get(parsedVitals, "PAP"), Get(parsedVitals, "pap"), None),
     EtCO2 |-> OrNum(Get(parsedVitals, "EtCO2"), Get(parsedVitals, "etco2"), Get(parsedVitals, "CO2")),
     awRR  |-> OrNum(Get(parsedVitals, "awRR"), Get(parsedVitals, "awrr"), Get(parsedVitals, "RR"))]

\* The text a model answers with is a sequence of tokens: an opening brace,
\* a closing brace, a list of well-formed members, or other text.
Tokens == {"{", "}", "members", "text"}

\* the object the token "members" is the member list of
TheMembers ==
    [HR |-> Some(0), hr |-> Some(72), SpO2 |-> Some(98), BP |-> Some(FormatBP(120, 80))]

\* the longest answer of the Hugging Face model, in tokens
MaxContent == 4

RECURSIVE SeqsUpTo(_, _)
SeqsUpTo(S, n) ==
    IF n = 0 THEN { <<>> }
    ELSE LET shorter == SeqsUpTo(S, n - 1)
         IN  shorter \cup { Append(s, x) : s \in { t \in shorter : Len(t) = n - 1 }, x \in S }

HFContents == SeqsUpTo(Tokens, MaxContent)

\* content.match(/\{[\s\S]*\}/): from the first "{" to the last "}", null
\* when no "}" follows the first "{"
jsonMatch(content) ==
    LET opens  == { i \in 1..Len(content) : content[i] = "{" }
        closes == { i \in 1..Len(content) : content[i] = "}" }
    IN  IF opens = {} THEN None
        ELSE LET first == CHOOSE i \in opens : \A j \in opens : i <= j
             IN  IF \E j \in closes : j > first
                 THEN LET last == CHOOSE j \in closes : \A l \in closes : l <= j
                      IN  Some(SubSeq(content, first, last))
                 ELSE None

\* JSON.parse of the matched text: the object, or None when it throws
JSONparse(text) ==
    IF text = <<"{", "}">> THEN Some(<<>>)
    ELSE IF text = <<"{", "members", "}">> THEN Some(TheMembers)
    ELSE None

\* chooseBestVitals, lines 511-556; null is None
scoreVitals(vitals) ==
    Cardinality({ k \in {"HR", "Pulse", "SpO2", "EtCO2", "awRR"} : TruthyNum(vitals[k]) })
    + Cardinality({ k \in {"ABP", "PAP"} : Truthy(vitals[k]) })

chooseBestVitals(tesseractVitals, geminiVitals) ==
    IF ~IsSome(tesseractVitals) /\ IsSome(geminiVitals)
    THEN [vitals |-> Val(geminiVitals), source |-> "gemini"]
    ELSE IF IsSome(tesseractVitals) /\ ~IsSome(geminiVitals)
    THEN [vitals |-> Val(tesseractVitals), source |-> "tesseract"]
    ELSE IF ~IsSome(tesseractVitals) /\ ~IsSome(geminiVitals)
    THEN [vitals |-> NoVitals, source |-> "none"]
    ELSE IF scoreVitals(Val(geminiVitals)) >= scoreVitals(Val(tesseractVitals))
    THEN [vitals |-> Val(geminiVitals), source |-> "gemini"]
    ELSE [vitals |-> Val(tesseractVitals), source |-> "tesseract"]

\* a promise: not started, pending, fulfilled with a value, or rejected
Idle      == [state |-> "idle"]
Pending   == [state |-> "pending"]
Rejected  == [state |-> "rejected"]
Fulfilled(v) == [state |-> "fulfilled", value |-> v]
Settled(p) == p.state \in {"fulfilled", "rejected"}

\* what extractWithTesseract (390-457) can resolve to: HR and Pulse are
\* synced, PAP is never read
TesseractVitals ==
    { NoVitals,
      [NoVitals EXCEPT !.HR = Some(75), !.Pulse = Some(75)],
      [NoVitals EXCEPT !.HR = Some(75), !.Pulse = Some(75), !.SpO2 = Some(98),
                       !.ABP = Some(FormatBP(120, 80))] }

\* what extractWithGemini (460-508) can resolve to
GeminiVitals ==
    { NoVitals,
      normalizeVitals(TheMembers),
      [NoVitals EXCEPT !.HR = Some(72), !.Pulse = Some(72), !.SpO2 = Some(97),
                       !.ABP = Some(FormatBP(118, 79)), !.EtCO2 = Some(38)] }

ExtractInit ==
    /\ exPc = "idle"
    /\ exHF = Idle
    /\ exTess = Idle
    /\ exGem = Idle
    /\ exCalls = <<>>
    /\ exAnswers = <<>>

\* lines 252-332: the request arrives; without an image it is answered 400,
\* otherwise hf.chatCompletion is called and awaited
ExtractVitals(imageBase64) ==
    /\ exPc = "idle"
    /\ IF ~imageBase64
       THEN /\ exAnswers' = Append(exAnswers, [status |-> 400])
            /\ exPc' = "done"
            /\ UNCHANGED <<exHF, exCalls>>
       ELSE /\ exCalls' = Append(exCalls, "huggingface")
            /\ exHF' = Pending
            /\ exPc' = "hf"
            /\ UNCHANGED exAnswers
    /\ UNCHANGED <<exTess, exGem>>

\* lines 334-366: the call has failed (Rejected) or has answered with a
\* content; a content whose match parses is normalized and sent at once;
\* anything else, JSON.parse throwing included, goes on to the fallback:
\* extractWithTesseract and extractWithGemini are both started
HFReturns(outcome) ==
    /\ exPc = "hf"
    /\ exHF' = outcome
    /\ LET jsonMatched == IF outcome.state = "fulfilled" THEN jsonMatch(outcome.value) ELSE None
           parsedVitals == IF IsSome(jsonMatched) THEN JSONparse(Val(jsonMatched)) ELSE None
       IN  IF IsSome(parsedVitals)
           THEN /\ exAnswers' = Append(exAnswers,
                                   [status |-> 200,
                                    vitals |-> normalizeVitals(Val(parsedVitals)),
                                    source |-> "huggingface"])
                /\ exPc' = "done"
                /\ UNCHANGED <<exCalls, exTess, exGem>>
           ELSE /\ exCalls' = exCalls \o <<"tesseract", "gemini">>
                /\ exTess' = Pending
                /\ exGem' = Pending
                /\ exPc' = "fallback"
                /\ UNCHANGED exAnswers

\* extractWithTesseract settles
TesseractSettles(result) ==
    /\ exPc = "fallback"
    /\ exTess = Pending
    /\ exTess' = result
    /\ UNCHANGED <<exPc, exHF, exGem, exCalls, exAnswers>>

\* extractWithGemini settles
GeminiSettles(result) ==
    /\ exPc = "fallback"
    /\ exGem = Pending
    /\ exGem' = result
    /\ UNCHANGED <<exPc, exHF, exTess, exCalls, exAnswers>>

\* lines 368-384: Promise.allSettled has resolved; the best result is sent
AllSettled ==
    /\ exPc = "fallback"
    /\ Settled(exTess) /\ Settled(exGem)
    /\ LET tesseractVitals == IF exTess.state = "fulfilled" THEN Some(exTess.value) ELSE None
           geminiVitals    == IF exGem.state = "fulfilled" THEN Some(exGem.value) ELSE None
           best            == chooseBestVitals(tesseractVitals, geminiVitals)
       IN  exAnswers' = Append(exAnswers,
                               [status |-> 200, vitals |-> best.vitals, source |-> best.source])
    /\ exPc' = "done"
    /\ UNCHANGED <<exHF, exTess, exGem, exCalls>>

-----------------------------------------------------------------------------
(* server/schema.sql, server/index.js : the patients, beds and vitals       *)
(* tables, POST /api/patients, DELETE /api/patients/:id and the transaction *)
(* of POST /api/vitals, statement by statement                              *)

\* the rows of the beds table (the schema inserts 20)
NumBeds == 2
Beds == 1..NumBeds

\* concurrent POST /api/patients requests, each on its own pooled connection
MaxAdds == 2
AddReqs == 1..MaxAdds

\* patient_id is AUTO_INCREMENT: every request inserts at most one row
PatientIds == 1..MaxAdds

\* DELETE requests and POST /api/vitals transactions, one at a time each
MaxDeletes == 1
MaxSaves == 1
\* rows one POST /api/vitals transaction inserts
MaxRows == 1

\* FOREIGN KEY (patient_id) REFERENCES patients ON DELETE SET NULL
onDeleteSetNull(beds, id) ==
    [b \in DOMAIN beds |-> IF beds[b] = Some(id) THEN None ELSE beds[b]]

onDeleteCascade_noAction(vitals, id) == vitals

\* FOREIGN KEY (patient_id) REFERENCES patients ON DELETE CASCADE
onDeleteCascade(vitals, id) == [vitals EXCEPT ![id] = 0]

\* SELECT bed_id FROM beds WHERE patient_id IS NULL LIMIT 1, read from the
\* committed rows (a consistent read) in the order of the primary key
firstAvailableBed(beds) ==
    LET free == { b \in DOMAIN beds : beds[b] = None }
    IN  IF free = {} THEN None
        ELSE Some(CHOOSE b \in free : \A c \in free : b <= c)

NewAdd ==
    [pc |-> "idle", pid |-> None, bed |-> None, tx |-> "none",
     locked |-> FALSE, released |-> FALSE, status |-> 0]

DbInit ==
    /\ dbPatients = {}
    /\ dbNextId = 1
    /\ dbBeds = [b \in Beds |-> None]
    /\ dbVitals = [p \in PatientIds |-> 0]
    /\ addReq = [r \in AddReqs |-> NewAdd]
    /\ delReq = [pc |-> "idle", id |-> 0, status |-> 0, n |-> 0]
    /\ vitReq = [pc |-> "idle", pid |-> 0, rows |-> 0, status |-> 0, n |-> 0]

\* ---- POST /api/patients, lines 134-182

\* lines 135-143: a connection is taken, the transaction begun and the body
\* validated; an incomplete body is answered 400 from inside the try block,
\* and the finally block releases the connection
AddBegin(r, complete) ==
    /\ addReq[r].pc = "idle"
    /\ addReq' = [addReq EXCEPT ![r] =
                     IF complete
                     THEN [@ EXCEPT !.pc = "insert", !.tx = "open"]
                     ELSE [@ EXCEPT !.pc = "done", !.tx = "open",
                                    !.status = 400, !.released = TRUE]]
    /\ UNCHANGED <<dbPatients, dbNextId, dbBeds, dbVitals, delReq, vitReq>>

\* lines 145-151 (and the catch, 174-181): INSERT INTO patients; the id is
\* taken from the counter, the row stays invisible to others until commit;
\* a failing statement is rolled back and answered 500
AddInsert(r, ok) ==
    /\ addReq[r].pc = "insert"
    /\ IF ok
       THEN /\ addReq' = [addReq EXCEPT ![r] = [@ EXCEPT !.pc = "select", !.pid = Some(dbNextId)]]
            /\ dbNextId' = dbNextId + 1
       ELSE /\ addReq' = [addReq EXCEPT ![r] =
                             [@ EXCEPT !.pc = "done", !.tx = "rolledback",
                                       !.status = 500, !.released = TRUE]]
            /\ UNCHANGED dbNextId
    /\ UNCHANGED <<dbPatients, dbBeds, dbVitals, delReq, vitReq>>

\* lines 153-157: the first available bed among the committed rows
AddSelectBed(r) ==
    /\ addReq[r].pc = "select"
    /\ LET availableBed == firstAvailableBed(dbBeds)
       IN  addReq' = [addReq EXCEPT ![r] =
                         [@ EXCEPT !.bed = availableBed,
                                   !.pc = IF IsSome(availableBed) THEN "update" ELSE "commit"]]
    /\ UNCHANGED <<dbPatients, dbNextId, dbBeds, dbVitals, delReq, vitReq>>

\* line 160: UPDATE beds SET patient_id = ? WHERE bed_id = ?; the statement
\* waits while another transaction holds the lock of that row, and then
\* writes whatever the row holds by now
AddUpdateBed(r) ==
    /\ addReq[r].pc = "update"
    /\ \A o \in AddReqs \ {r} : ~(addReq[o].locked /\ addReq[o].bed = addReq[r].bed)
    /\ addReq' = [addReq EXCEPT ![r] = [@ EXCEPT !.pc = "commit", !.locked = TRUE]]
    /\ UNCHANGED <<dbPatients, dbNextId, dbBeds, dbVitals, delReq, vitReq>>

\* lines 166-173 and 179-181: commit, the answer 201 with patientId, bedId
\* and bedAssigned, and the release of the connection
AddCommit(r) ==
    /\ addReq[r].pc = "commit"
    /\ dbPatients' = dbPatients \cup {Val(addReq[r].pid)}
    /\ dbBeds' = IF addReq[r].locked
                 THEN [dbBeds EXCEPT ![Val(addReq[r].bed)] = addReq[r].pid]
                 ELSE dbBeds
    /\ addReq' = [addReq EXCEPT ![r] =
                     [@ EXCEPT !.pc = "done", !.tx = "committed", !.locked = FALSE,
                               !.status = 201, !.released = TRUE]]
    /\ UNCHANGED <<dbNextId, dbVitals, delReq, vitReq>>

\* ---- the transaction of POST /api/vitals, lines 570-639

\* a child row inserted by an open transaction keeps a lock on its parent
ChildLock(id) == vitReq.pc = "insert" /\ vitReq.pid = id /\ vitReq.rows > 0

\* lines 570-573
SaveBegin(pid) ==
    /\ vitReq.pc \in {"idle", "done"}
    /\ vitReq.n < MaxSaves
    /\ vitReq' = [pc |-> "insert", pid |-> pid, rows |-> 0, status |-> 0, n |-> vitReq.n + 1]
    /\ UNCHANGED <<dbPatients, dbNextId, dbBeds, dbVitals, addReq, delReq>>

\* line 598: INSERT INTO vitals; the foreign key demands a committed patient
\* row, otherwise the statement fails, the transaction is rolled back (635)
\* and the answer is 500
SaveInsert ==
    /\ vitReq.pc = "insert"
    /\ vitReq.rows < MaxRows
    /\ vitReq' = IF vitReq.pid \in dbPatients
                 THEN [vitReq EXCEPT !.rows = @ + 1]
                 ELSE [vitReq EXCEPT !.pc = "done", !.rows = 0, !.status = 500]
    /\ UNCHANGED <<dbPatients, dbNextId, dbBeds, dbVitals, addReq, delReq>>

\* lines 632-633
SaveCommit ==
    /\ vitReq.pc = "insert"
    /\ vitReq.rows > 0
    /\ dbVitals' = [dbVitals EXCEPT ![vitReq.pid] = @ + vitReq.rows]
    /\ vitReq' = [vitReq EXCEPT !.pc = "done", !.rows = 0, !.status = 201]
    /\ UNCHANGED <<dbPatients, dbNextId, dbBeds, addReq, delReq>>

\* ---- DELETE /api/patients/:id, lines 184-206: three statements on the
\* pool, each in its own implicit transaction

\* lines 189-193
DeleteCheck(id) ==
    /\ delReq.pc \in {"idle", "done"}
    /\ delReq.n < MaxDeletes
    /\ delReq' = IF id \in dbPatients
                 THEN [pc |-> "vitals", id |-> id, status |-> 0, n |-> delReq.n + 1]
                 ELSE [pc |-> "done", id |-> id, status |-> 404, n |-> delReq.n + 1]
    /\ UNCHANGED <<dbPatients, dbNextId, dbBeds, dbVitals, addReq, vitReq>>

\* line 196: DELETE FROM vitals WHERE patient_id = ?
DeleteVitals ==
    /\ delReq.pc = "vitals"
    /\ ~ChildLock(delReq.id)
    /\ dbVitals' = [dbVitals EXCEPT ![delReq.id] = 0]
    /\ delReq' = [delReq EXCEPT !.pc = "patient"]
    /\ UNCHANGED <<dbPatients, dbNextId, dbBeds, addReq, vitReq>>

\* lines 199-201: DELETE FROM patients WHERE patient_id = ?, with what the
\* foreign keys of beds and vitals do on delete, and the answer
DeletePatient ==
    /\ delReq.pc = "patient"
    /\ ~ChildLock(delReq.id)
    /\ dbPatients' = dbPatients \ {delReq.id}
    /\ dbBeds' = onDeleteSetNull(dbBeds, delReq.id)
    /\ dbVitals' = onDeleteCascade(dbVitals, delReq.id)
    /\ delReq' = [delReq EXCEPT !.pc = "done", !.status = 200]
    /\ UNCHANGED <<dbNextId, addReq, vitReq>>

-----------------------------------------------------------------------------
(* PatientVitalMonitor.tsx : the listeners of the store;                    *)
(* unnamed/part_001 : NotificationBell                                      *)

\* the NotificationBell components on the page
NumBells == 2
Bells == 1..NumBells

\* effect runs (mounts and changes of patientId) of one bell
MaxBellEffects == 2

\* addManualAlert is called while the patient's list is shorter than this
MaxManual == 1

\* the patientId prop: absent, the id of a patient, or no number
BellPatientIds == {None, Some(<<"1">>), Some(<<"2">>), Some(<<"x">>)}

\* the callback updateNotifications created by one run of the effect: it
\* closes over the patientId of that run
Listener(b, patientId, gen) == [bell |-> b, patientId |-> patientId, gen |-> gen]

\* updateNotifications, part_001 lines 331-343: the list handed to
\* setNotifications
updateNotifications(patientId, store) ==
    IF ~Truthy(patientId) THEN <<>>
    ELSE LET pid == parseInt(patientId)
         IN  IF IsSome(pid) THEN getPatientNotifications(store, Val(pid)) ELSE <<>>

\* subscribeToNotifications: listeners.add(callback)
subscribe(ls, callback) == ls \cup {callback}

unsubscribe_keeps(ls, callback) == ls

\* the function subscribeToNotifications returns: listeners.delete(callback)
unsubscribe(ls, callback) == ls \ {callback}

\* notifyListeners: every listener runs, in the order of insertion; the
\* state of a bell is what its last listener set
notifyListeners(ls, shown, store) ==
    [b \in DOMAIN shown |->
        LET mine == { l \in ls : l.bell = b }
        IN  IF mine = {} THEN shown[b]
            ELSE updateNotifications(
                     (CHOOSE l \in mine : \A m \in mine : m.gen <= l.gen).patientId, store)]

BellInit ==
    /\ listeners = {}
    /\ bellPatientId = [b \in Bells |-> None]
    /\ bellSub = [b \in Bells |-> None]
    /\ bellGen = [b \in Bells |-> 0]
    /\ notifications = [b \in Bells |-> <<>>]
    /\ notified = {}
    /\ unsubscribed = {}

\* what a change of the store does to the listeners: notifyListeners() when
\* the code calls it, nothing otherwise
Notify(called) ==
    /\ IF called
       THEN /\ notifications' = notifyListeners(listeners, notifications, patientNotifications')
            /\ notified' = listeners
       ELSE /\ UNCHANGED notifications
            /\ notified' = {}
    /\ UNCHANGED <<listeners, bellPatientId, bellSub, bellGen, unsubscribed>>

\* PatientVitalMonitor lines 209-219: the evaluation stores its result and
\* notifies, unless there is no alert and no entry to delete
MonitorStores(patient, latest) ==
    /\ MonitorProps(patient, latest)
    /\ Notify(/\ lastOp'.evaluated
              /\ \/ Len(lastOp'.alerts) > 0
                 \/ Val(patient) \in DOMAIN patientNotifications)

\* clearPatientNotifications, lines 253-256
ClearNotifies(patientId) ==
    /\ Clear(patientId)
    /\ Notify(TRUE)

\* addManualAlert, lines 263-267, called with an alert for a patient
ManualAlert(patientId, alert) ==
    /\ Len(getPatientNotifications(patientNotifications, patientId)) < MaxManual
    /\ patientNotifications' = addManualAlert(patientNotifications, patientId, alert)
    /\ lastOp' = [op |-> "manual", patient |-> Some(patientId), alert |-> alert]
    /\ UNCHANGED <<lastCheckTimeRef, monPatient, monJoined, socketQueue>>
    /\ Notify(TRUE)

\* NotificationBell is mounted, or rendered with another patientId: the
\* cleanup of the previous effect unsubscribes its callback, the new effect
\* loads the list and subscribes its own (part_001 lines 330-352)
BellProps(b, patientId) ==
    /\ bellGen[b] < MaxBellEffects
    /\ bellSub[b] = None \/ patientId # bellPatientId[b]
    /\ LET callback == Listener(b, patientId, bellGen[b] + 1)
           cleaned  == IF bellSub[b] = None THEN listeners
                       ELSE unsubscribe(listeners, Val(bellSub[b]))
       IN  /\ listeners' = subscribe(cleaned, callback)
           /\ bellSub' = [bellSub EXCEPT ![b] = Some(callback)]
           /\ unsubscribed' = IF bellSub[b] = None THEN unsubscribed
                              ELSE unsubscribed \cup {Val(bellSub[b])}
    /\ bellPatientId' = [bellPatientId EXCEPT ![b] = patientId]
    /\ bellGen' = [bellGen EXCEPT ![b] = @ + 1]
    /\ notifications' = [notifications EXCEPT
                            ![b] = updateNotifications(patientId, patientNotifications)]
    /\ notified' = {}
    /\ lastOp' = [op |-> "bell"]
    /\ UNCHANGED storeVars

\* NotificationBell is unmounted: the cleanup unsubscribes its callback
BellUnmount(b) ==
    /\ bellSub[b] # None
    /\ listeners' = unsubscribe(listeners, Val(bellSub[b]))
    /\ unsubscribed' = unsubscribed \cup {Val(bellSub[b])}
    /\ bellSub' = [bellSub EXCEPT ![b] = None]
    /\ notifications' = [notifications EXCEPT ![b] = <<>>]
    /\ notified' = {}
    /\ lastOp' = [op |-> "unmount"]
    /\ UNCHANGED <<bellPatientId, bellGen, storeVars>>

-----------------------------------------------------------------------------
(* CameraFeed.tsx : the socket of a viewer and its vital-update handler     *)

\* the patientId prop of CameraFeed: absent, or the id of a patient
ViewPatientIds == {None, Some(<<"1">>), Some(<<"2">>)}

\* the events of a list of emits that reach a connected socket which is in
\* the rooms given: io.emit reaches every socket, io.to(room).emit the
\* sockets in the room, each emit as a packet of its own
receivedBy(emits, rooms, event) ==
    LET hits == SelectSeq(emits, LAMBDA e : /\ e.event = event
                                            /\ e.room = Everyone \/ e.room \in rooms)
    IN  [i \in 1..Len(hits) |-> hits[i].payload]

\* the rooms the viewer's socket is in: `patient-${patientId}` once the
\* server has handled join-patient
viewRooms ==
    IF viewJoined THEN {RoomOf(Val(parseInt(viewPatientId)))} ELSE {}

\* newHistory.slice(-20)
LastTwenty(h) == IF Len(h) > 20 THEN SubSeq(h, Len(h) - 19, Len(h)) ELSE h

\* does the handler of vital-update take the event (lines 72-77)
viewerTakes(newVital, patientId) ==
    /\ newVital.source = "camera"
    /\ ~ ( /\ Truthy(patientId)
           /\ newVital.patient_id # 0
           /\ NumToStr(newVital.patient_id) # Val(patientId) )

\* vitalsHistory after the handler of vital-update ran for newVital; the
\* time of the point is the wall clock and is left out
onVitalUpdate(history, newVital, patientId) ==
    IF viewerTakes(newVital, patientId)
    THEN LastTwenty(Append(history, [HR |-> newVital.hr, SpO2 |-> newVital.spo2]))
    ELSE history

\* vitalsHistory after the handler ran for each of the events in turn
RECURSIVE historyAfter(_, _, _)
historyAfter(history, events, patientId) ==
    IF events = <<>> THEN history
    ELSE historyAfter(onVitalUpdate(history, Head(events), patientId),
                      Tail(events), patientId)

ViewInit ==
    /\ viewConnected = FALSE
    /\ viewPatientId = None
    /\ viewJoined = FALSE
    /\ viewQueue = <<>>
    /\ latestVitals = None
    /\ vitalsHistory = <<>>

\* CameraFeed is mounted: the effect connects a socket and asks to join the
\* patient's room when patientId is set (lines 38-44)
ViewerMount(patientId) ==
    /\ ~viewConnected
    /\ viewConnected' = TRUE
    /\ viewPatientId' = patientId
    /\ lastOp' = [op |-> "viewer", patientId |-> patientId]
    /\ UNCHANGED <<viewJoined, viewQueue, latestVitals, vitalsHistory>>

\* the server handles join-patient of the viewer's socket (index.js 86-89)
ViewerJoin ==
    /\ viewConnected /\ Truthy(viewPatientId) /\ ~viewJoined
    /\ viewJoined' = TRUE
    /\ lastOp' = [op |-> "viewer-join"]
    /\ UNCHANGED <<viewConnected, viewPatientId, viewQueue, latestVitals, vitalsHistory>>

\* POST /api/vitals while the viewer may be connected: its socket is sent
\* the vital-update events of the request
ViewerPost(vitalsArray, failAt) ==
    /\ PostVitalsCore(vitalsArray, failAt)
    /\ viewQueue' = IF viewConnected
                    THEN viewQueue \o receivedBy(lastOp'.emits, viewRooms, "vital-update")
                    ELSE viewQueue
    /\ UNCHANGED <<viewConnected, viewPatientId, viewJoined, latestVitals, vitalsHistory>>

\* socket.on('vital-update'): one event reaches the viewer (lines 71-98)
OnVitalUpdate ==
    /\ viewQueue # <<>>
    /\ LET newVital == Head(viewQueue)
       IN  /\ latestVitals' = IF viewerTakes(newVital, viewPatientId)
                              THEN Some([HR |-> newVital.hr, Pulse |-> newVital.pulse,
                                         SpO2 |-> newVital.spo2, ABP |-> newVital.abp,
                                         PAP |-> newVital.pap, EtCO2 |-> newVital.etco2,
                                         awRR |-> newVital.awrr])
                              ELSE latestVitals
           /\ vitalsHistory' = onVitalUpdate(vitalsHistory, newVital, viewPatientId)
           /\ lastOp' = [op |-> "vital-update", vital |-> newVital]
    /\ viewQueue' = Tail(viewQueue)
    /\ UNCHANGED <<viewConnected, viewPatientId, viewJoined>>

-----------------------------------------------------------------------------
(* CameraFeed.tsx : the capture timer and the OCR worker                    *)

\* the timer fires at most this often
MaxTicks == 3

\* what the worker reads from a frame
WorkerVitals ==
    { [HR |-> None, Pulse |-> None, SpO2 |-> None, ABP |-> None,
       PAP |-> None, EtCO2 |-> None, awRR |-> None],
      [HR |-> Some(72), Pulse |-> Some(72), SpO2 |-> Some(98), ABP |-> None,
       PAP |-> None, EtCO2 |-> None, awRR |-> None] }

\* the last message of the worker for a frame: completed with a result,
\* completed without one, or error
WorkerAnswers ==
    { [status |-> "completed", result |-> Some([vitals |-> v])] : v \in WorkerVitals }
    \cup { [status |-> "completed", result |-> None], [status |-> "error", result |-> None] }

\* Object.values(result.vitals).some(v => v !== null)
someVital(vitals) == \E k \in DOMAIN vitals : vitals[k] # None

CamInit ==
    /\ isCapturing = FALSE
    /\ intervalSees = None
    /\ isProcessing = FALSE
    /\ workerFrames = <<>>
    /\ ticks = 0
    /\ previewUrl = None
    /\ ocrProgress = None

\* startCapture (lines 106-167) when the camera opens and the video element
\* is there: the timer's callback calls the captureAndProcess of the render
\* startCapture belongs to, which reads that render's isProcessing
StartCapture ==
    /\ ~isCapturing
    /\ isCapturing' = TRUE
    /\ intervalSees' = Some(isProcessing)
    /\ lastOp' = [op |-> "start"]
    /\ UNCHANGED <<isProcessing, workerFrames, ticks, previewUrl, ocrProgress>>

\* stopCapture (lines 199-213)
StopCapture ==
    /\ isCapturing
    /\ isCapturing' = FALSE
    /\ intervalSees' = None
    /\ previewUrl' = None
    /\ lastOp' = [op |-> "stop"]
    /\ UNCHANGED <<isProcessing, workerFrames, ticks, ocrProgress>>

\* the timer fires: captureAndProcess (lines 279-310).  ready: the video and
\* the canvas are there and video.readyState is 4; ctx: getContext('2d')
\* gives a context
TimerFires(ready, ctx) ==
    /\ intervalSees # None
    /\ ticks < MaxTicks
    /\ ticks' = ticks + 1
    /\ IF ~ready \/ Val(intervalSees)
       THEN /\ UNCHANGED <<isProcessing, workerFrames, previewUrl>>
            /\ lastOp' = [op |-> "timer", posted |-> FALSE]
       ELSE /\ isProcessing' = TRUE
            /\ IF ctx
               THEN /\ previewUrl' = Some(ticks')
                    /\ workerFrames' = Append(workerFrames, ticks')
                    /\ lastOp' = [op |-> "timer", posted |-> TRUE]
               ELSE /\ UNCHANGED <<workerFrames, previewUrl>>
                    /\ lastOp' = [op |-> "timer", posted |-> FALSE]
    /\ UNCHANGED <<isCapturing, intervalSees, ocrProgress>>

\* worker.onmessage with status initializing, processing or recognizing
WorkerProgress(status) ==
    /\ workerFrames # <<>>
    /\ ocrProgress' = Some(status)
    /\ lastOp' = [op |-> "progress"]
    /\ UNCHANGED <<isCapturing, intervalSees, isProcessing, workerFrames, ticks, previewUrl>>
    /\ UNCHANGED <<latestVitals, vitalsHistory>>

\* worker.onmessage with the last message for the oldest frame (lines
\* 221-239), and handleVitalsUpdate for a result with a vital in it; the
\* request handleVitalsUpdate sends is a POST /api/vitals of its own
WorkerDone(answer) ==
    /\ workerFrames # <<>>
    /\ workerFrames' = Tail(workerFrames)
    /\ IF (answer.status = "completed" /\ answer.result # None) \/ answer.status = "error"
       THEN /\ ocrProgress' = None
            /\ isProcessing' = FALSE
       ELSE UNCHANGED <<ocrProgress, isProcessing>>
    /\ IF /\ answer.status = "completed" /\ answer.result # None
          /\ someVital(Val(answer.result).vitals)
       THEN LET vitals == Val(answer.result).vitals
            IN  /\ latestVitals' = Some(vitals)
                /\ vitalsHistory' = LastTwenty(Append(vitalsHistory,
                                        [HR |-> vitals.HR, SpO2 |-> vitals.SpO2]))
       ELSE UNCHANGED <<latestVitals, vitalsHistory>>
    /\ lastOp' = [op |-> "answer", frame |-> Head(workerFrames), status |-> answer.status]
    /\ UNCHANGED <<isCapturing, intervalSees, ticks, previewUrl>>

-----------------------------------------------------------------------------
(* The browser and the server together                                      *)

\* readings with a heart rate and an oxygen saturation only
TwoAlertsTruth == [AbsentTruth EXCEPT !["HR"] = Some(45), !["SpO2"] = Some(85)]
OneAlertTruth  == [AbsentTruth EXCEPT !["HR"] = Some(45), !["SpO2"] = Some(98)]
NoAlertTruth   == [AbsentTruth EXCEPT !["HR"] = Some(72), !["SpO2"] = Some(98)]

StoreTruths == {TwoAlertsTruth, OneAlertTruth, NoAlertTruth, AbsentTruth}

MaxTime == 2

MaxPosts == 1

\* the row of the vitals table that carries truth, blood pressures absent
\* when truth has none
PlainReading(truth, pid, t) ==
    CHOOSE r \in ReadingsOf(truth, pid, t) :
        /\ (truth["ABP Sys"] = None => r.abp = None)
        /\ (truth["PAP Dia"] = None => r.pap = None)

ReadingsByPatient ==
    [pid \in Patients |->
        { PlainReading(truth, pid, t) : truth \in StoreTruths, t \in 1..MaxTime }]

StoreReadings(pid) == ReadingsByPatient[pid]

\* the readings the monitor can be handed as the latest one: the one it
\* checked last, again, or the one that follows it
NextReadings(pid) ==
    { r \in StoreReadings(pid) :
        r.created_at \in {lastCheckTimeRef, lastCheckTimeRef + 1} }

\* an element of a request body: the row without created_at, the patient id
\* given or left out
BodyOf(truth, pidOpt) ==
    [k \in {"hr", "pulse", "spo2", "abp", "pap", "etco2", "awrr"} |->
        PlainReading(truth, 1, 1)[k]]
    @@ [patient_id |-> pidOpt, created_at |-> None]

StoreBodies ==
    {<<>>} \cup { << BodyOf(truth, pidOpt) >> :
                    truth \in {TwoAlertsTruth, AbsentTruth}, pidOpt \in {None, Some(2)} }

AllAbsent(reading) ==
    \A k \in {"hr", "pulse", "spo2", "abp", "pap", "etco2", "awrr"} : reading[k] = None

NoOp == [op |-> "none"]

\* no reading has been evaluated yet
HistInit == evaluatedAt = [q \in Patients |-> 0]

StoreSpecInit ==
    /\ evalTruth = AbsentTruth
    /\ evalInput = PlainReading(AbsentTruth, 1, 1)
    /\ srvOut = <<>> /\ srvDone = FALSE
    /\ monOut = <<>> /\ monDone = FALSE
    /\ StoreInit /\ BannerInit /\ ServerInit /\ MailInit /\ ExtractInit /\ DbInit /\ BellInit /\ ViewInit /\ CamInit /\ HistInit
    /\ lastOp = NoOp

StoreNext ==
    \/ \E patient \in {None} \cup {Some(q) : q \in Patients} :
         \E latest \in {None} \cup (IF patient = None THEN {}
                                    ELSE {Some(r) : r \in NextReadings(Val(patient))}) :
            /\ MonitorProps(patient, latest)
            /\ UNCHANGED <<laterVars, extractVars, evalVars, vnVars, serverVars, mailVars>>
    \/ /\ ServerJoin
       /\ UNCHANGED <<laterVars, extractVars, evalVars, vnVars, serverVars, mailVars>>
    \/ /\ OnVitalAlert
       /\ UNCHANGED <<laterVars, extractVars, evalVars, vnVars, serverVars, mailVars>>
    \/ \E q \in Patients :
         /\ Clear(q)
         /\ UNCHANGED <<laterVars, extractVars, evalVars, vnVars, serverVars, mailVars>>
    \/ \E body \in StoreBodies : \E failAt \in 0..Len(body) :
         /\ PostVitalsCore(body, failAt)
         /\ posts < MaxPosts
         /\ UNCHANGED <<laterVars, extractVars, evalVars, vnVars, mailVars>>
         /\ UNCHANGED <<patientNotifications, lastCheckTimeRef, monPatient, monJoined>>

SpecStore == StoreSpecInit /\ [][StoreNext]_vars

\* the server with the dispatcher, and time passing
MaxClock == 6

MaxMailPosts == 2

NotifyBodies ==
    { << BodyOf(TwoAlertsTruth, None) >>,
      << BodyOf(TwoAlertsTruth, None), BodyOf(TwoAlertsTruth, None) >>,
      << BodyOf(TwoAlertsTruth, Some(2)) >> }

NotifyNext ==
    \/ \E body \in NotifyBodies : \E failAt \in 0..Len(body) :
         /\ posts < MaxMailPosts
         /\ NotifyPost(body, failAt)
         /\ UNCHANGED <<laterVars, extractVars, evalVars, vnVars>>
         /\ UNCHANGED <<patientNotifications, lastCheckTimeRef, monPatient, monJoined>>
    \/ /\ serverClock < MaxClock
       /\ Tick
       /\ UNCHANGED <<laterVars, extractVars, evalVars, vnVars, storeVars>>

SpecNotify == StoreSpecInit /\ [][NotifyNext]_vars

\* the server alone: requests with values of every sort, and faults
MaxServerPosts == 2

\* an element of a request body with the given fields, the rest left out
Element(fields, pidOpt) ==
    [k \in {"hr", "pulse", "spo2", "abp", "pap", "etco2", "awrr", "created_at"} |->
        IF k \in DOMAIN fields THEN Some(fields[k]) ELSE None]
    @@ [patient_id |-> pidOpt]

ServerFields ==
    { [hr |-> h, spo2 |-> o] : h \in {0, 45, 72, 300}, o \in {85, 98, 101} }
    \cup { [hr |-> h] : h \in {0, 45, 300} }
    \cup { [etco2 |-> 0], [etco2 |-> 50], [awrr |-> 0 - 3], [pulse |-> 0 - 3],
           [abp |-> FormatBP(85, 60)], [pap |-> FormatBP(15, 13)],
           [hr |-> 45, pulse |-> 45, spo2 |-> 85, abp |-> FormatBP(85, 60),
            pap |-> FormatBP(15, 13), etco2 |-> 50, awrr |-> 25] }
    \cup { <<>> }

ServerElements == { Element(f, pidOpt) : f \in ServerFields, pidOpt \in {None, Some(2)} }

ServerBodies ==
    { <<>> } \cup { <<e>> : e \in ServerElements }
    \cup { << Element([hr |-> 45, spo2 |-> 85], None), e >> :
              e \in { Element([hr |-> 45, spo2 |-> 85], pidOpt) : pidOpt \in {None, Some(2)} } }

\* the faults that can hit a request with this body
Faults(body) ==
    { NoFault }
    \cup { [kind |-> kd, at |-> i, n |-> 0] :
              kd \in {"insert", "emit-all", "emit-room"}, i \in 1..Len(body) }
    \cup UNION { { [kind |-> "alerts", at |-> i, n |-> j] :
                     j \in 0..(IF Len(alertsOfBody(<<body[i]>>, 1, 1)) = 0 THEN 0
                               ELSE Len(alertsOfBody(<<body[i]>>, 1, 1)) - 1) } :
                 i \in 1..Len(body) }

ServerNext ==
    \E body \in ServerBodies : \E fault \in Faults(body) :
       /\ posts < MaxServerPosts
       /\ PostVitals(body, fault)
       /\ UNCHANGED <<laterVars, extractVars, evalVars, vnVars, mailVars>>
       /\ UNCHANGED <<patientNotifications, lastCheckTimeRef, monPatient, monJoined>>

SpecServer == StoreSpecInit /\ [][ServerNext]_vars

\* one extraction request, with every outcome of the three services
ExtractNext ==
    \/ \E imageBase64 \in BOOLEAN :
         /\ ExtractVitals(imageBase64)
         /\ UNCHANGED <<laterVars, evalVars, storeVars, vnVars, serverVars, mailVars, lastOp>>
    \/ \E outcome \in {Rejected} \cup { Fulfilled(c) : c \in HFContents } :
         /\ HFReturns(outcome)
         /\ UNCHANGED <<laterVars, evalVars, storeVars, vnVars, serverVars, mailVars, lastOp>>
    \/ \E result \in {Rejected} \cup { Fulfilled(v) : v \in TesseractVitals } :
         /\ TesseractSettles(result)
         /\ UNCHANGED <<laterVars, evalVars, storeVars, vnVars, serverVars, mailVars, lastOp>>
    \/ \E result \in {Rejected} \cup { Fulfilled(v) : v \in GeminiVitals } :
         /\ GeminiSettles(result)
         /\ UNCHANGED <<laterVars, evalVars, storeVars, vnVars, serverVars, mailVars, lastOp>>
    \/ /\ AllSettled
       /\ UNCHANGED <<laterVars, evalVars, storeVars, vnVars, serverVars, mailVars, lastOp>>

SpecExtract == StoreSpecInit /\ [][ExtractNext]_vars

\* the requests on the patients, interleaved statement by statement
\* what the requests on the patients leave alone
dbRest ==
    <<evalVars, storeVars, vnVars, serverVars, mailVars, extractVars, lastOp, bellVars, viewVars, camVars, evaluatedAt>>

DbNext ==
    \/ \E r \in AddReqs : \E complete \in BOOLEAN :
         /\ AddBegin(r, complete)
         /\ UNCHANGED dbRest
    \/ \E r \in AddReqs : \E ok \in BOOLEAN :
         /\ AddInsert(r, ok)
         /\ UNCHANGED dbRest
    \/ \E r \in AddReqs :
         /\ AddSelectBed(r)
         /\ UNCHANGED dbRest
    \/ \E r \in AddReqs :
         /\ AddUpdateBed(r)
         /\ UNCHANGED dbRest
    \/ \E r \in AddReqs :
         /\ AddCommit(r)
         /\ UNCHANGED dbRest
    \/ \E pid \in PatientIds :
         /\ SaveBegin(pid)
         /\ UNCHANGED dbRest
    \/ /\ SaveInsert
       /\ UNCHANGED dbRest
    \/ /\ SaveCommit
       /\ UNCHANGED dbRest
    \/ \E id \in PatientIds :
         /\ DeleteCheck(id)
         /\ UNCHANGED dbRest
    \/ /\ DeleteVitals
       /\ UNCHANGED dbRest
    \/ /\ DeletePatient
       /\ UNCHANGED dbRest

SpecDb == StoreSpecInit /\ [][DbNext]_vars

\* the monitor alone, handed any patient and any of the patient's readings
\* as the latest one, with the history of what it evaluated
MonitorNext ==
    \/ \E patient \in {None} \cup {Some(q) : q \in Patients} :
         \E latest \in {None} \cup (IF patient = None THEN {}
                                    ELSE {Some(r) : r \in StoreReadings(Val(patient))}) :
            /\ MonitorProps(patient, latest)
            /\ evaluatedAt' = IF lastOp'.evaluated
                              THEN [evaluatedAt EXCEPT ![Val(patient)] = Val(latest).created_at]
                              ELSE evaluatedAt
            /\ UNCHANGED <<dbVars, bellVars, viewVars, camVars, extractVars, evalVars, vnVars, serverVars, mailVars>>
    \/ \E q \in Patients :
         /\ Clear(q)
         /\ UNCHANGED <<laterVars, extractVars, evalVars, vnVars, serverVars, mailVars>>

SpecMonitor == StoreSpecInit /\ [][MonitorNext]_vars

\* the alert a caller hands to addManualAlert for patient q
ManualAlerts(q) ==
    {Head(monitorAlerts(PlainReading(TwoAlertsTruth, q, 1), q))}

\* what the store, its listeners and the bells leave alone
bellRest ==
    <<evalVars, vnVars, serverVars, mailVars, extractVars, dbVars, viewVars, camVars, evaluatedAt>>

\* the store with its listeners: evaluations, clears, manual alerts, and the
\* bells mounting, changing patient and unmounting
BellNext ==
    \/ \E latest \in {None} \cup {Some(r) : r \in NextReadings(1)} :
         /\ MonitorStores(Some(1), latest)
         /\ UNCHANGED bellRest
    \/ \E q \in Patients :
         /\ ClearNotifies(q)
         /\ UNCHANGED bellRest
    \/ \E q \in Patients : \E alert \in ManualAlerts(q) :
         /\ ManualAlert(q, alert)
         /\ UNCHANGED bellRest
    \/ \E b \in Bells : \E patientId \in BellPatientIds :
         /\ BellProps(b, patientId)
         /\ UNCHANGED bellRest
    \/ \E b \in Bells :
         /\ BellUnmount(b)
         /\ UNCHANGED bellRest

SpecBell == StoreSpecInit /\ [][BellNext]_vars

\* the bodies posted while a viewer watches: one or two readings, from the
\* camera or with no source, for patient 2 or with no patient
ViewerElements ==
    { Element([hr |-> h, spo2 |-> 85], pidOpt) @@ [source |-> src] :
         h \in {45, 72}, pidOpt \in {None, Some(2)}, src \in {None, Some("camera")} }

ViewerBodies ==
    { <<>> } \cup { <<e>> : e \in ViewerElements }
    \cup { <<e, e>> : e \in ViewerElements }

viewRest ==
    <<evalVars, vnVars, mailVars, extractVars, dbVars, bellVars, camVars, evaluatedAt>>

\* a viewer of the camera feed and the requests that save readings
ViewerNext ==
    \/ \E patientId \in ViewPatientIds :
         /\ ViewerMount(patientId)
         /\ UNCHANGED <<viewRest, storeVars, serverVars>>
    \/ /\ ViewerJoin
       /\ UNCHANGED <<viewRest, storeVars, serverVars>>
    \/ \E body \in ViewerBodies : \E failAt \in 0..Len(body) :
         /\ posts < MaxServerPosts
         /\ ViewerPost(body, failAt)
         /\ UNCHANGED viewRest
         /\ UNCHANGED <<patientNotifications, lastCheckTimeRef, monPatient, monJoined>>
    \/ /\ OnVitalUpdate
       /\ UNCHANGED <<viewRest, storeVars, serverVars>>

SpecViewer == StoreSpecInit /\ [][ViewerNext]_vars

camRest ==
    <<evalVars, storeVars, vnVars, serverVars, mailVars, extractVars, dbVars, bellVars,
      evaluatedAt, viewConnected, viewPatientId, viewJoined, viewQueue>>

\* the camera capturing: the timer, the worker's messages, start and stop
CameraNext ==
    \/ /\ StartCapture
       /\ UNCHANGED <<camRest, latestVitals, vitalsHistory>>
    \/ /\ StopCapture
       /\ UNCHANGED <<camRest, latestVitals, vitalsHistory>>
    \/ \E ready \in BOOLEAN : \E ctx \in BOOLEAN :
         /\ TimerFires(ready, ctx)
         /\ UNCHANGED <<camRest, latestVitals, vitalsHistory>>
    \/ \E status \in {"initializing", "processing", "recognizing"} :
         /\ WorkerProgress(status)
         /\ UNCHANGED camRest
    \/ \E answer \in WorkerAnswers :
         /\ WorkerDone(answer)
         /\ UNCHANGED camRest

SpecCamera == StoreSpecInit /\ [][CameraNext]_vars

\* the banner alone: it shares no state with the store or the server
BannerNext ==
    \/ \E latest \in {None} \cup {Some(r) : r \in StoreReadings(1)} :
         /\ BannerProps(latest)
         /\ UNCHANGED <<laterVars, extractVars, evalVars, storeVars, serverVars, mailVars>>
    \/ \E id \in IdsOf(vnAlerts) :
         /\ BannerDismiss(id)
         /\ UNCHANGED <<laterVars, extractVars, evalVars, storeVars, serverVars, mailVars>>

SpecBanner == StoreSpecInit /\ [][BannerNext]_vars

-----------------------------------------------------------------------------
(* Evaluation of one reading by the two evaluators                          *)

EvalInit ==
    /\ \E b \in BaseTruths, k \in KindSet, v \in {None} \cup {Some(n) : n \in VitalValues} :
          evalTruth = [b EXCEPT ![k] = v]
    /\ evalInput \in ReadingsOf(evalTruth, 1, 1)
    /\ srvOut = <<>>
    /\ srvDone = FALSE
    /\ monOut = <<>>
    /\ monDone = FALSE
    /\ StoreInit /\ BannerInit /\ ServerInit /\ MailInit /\ ExtractInit /\ DbInit /\ BellInit /\ ViewInit /\ CamInit /\ HistInit
    /\ lastOp = NoOp

\* the server evaluates the reading
EvaluateServer ==
    /\ ~srvDone
    /\ srvOut' = generateAlertsForVitals(evalInput, 1)
    /\ srvDone' = TRUE
    /\ UNCHANGED <<evalTruth, evalInput, monOut, monDone>>
    /\ UNCHANGED <<storeVars, vnVars, serverVars, mailVars, extractVars, laterVars, lastOp>>

\* the browser evaluates the reading
EvaluateMonitor ==
    /\ ~monDone
    /\ monOut' = monitorAlerts(evalInput, evalInput.patient_id)
    /\ monDone' = TRUE
    /\ UNCHANGED <<evalTruth, evalInput, srvOut, srvDone>>
    /\ UNCHANGED <<storeVars, vnVars, serverVars, mailVars, extractVars, laterVars, lastOp>>

EvalNext == EvaluateServer \/ EvaluateMonitor

SpecEval == EvalInit /\ [][EvalNext]_vars

-----------------------------------------------------------------------------
(* Claims on the evaluation                                                 *)

\* the alerts of kind k in a list of alerts
OfKind(alerts, k) == SelectSeq(alerts, LAMBDA a : a.vital = k)

\* <<kind, value, direction, severity>> of each alert, in order
Summary(alerts) ==
    [i \in 1..Len(alerts) |->
        <<alerts[i].vital, alerts[i].value, alerts[i].type, alerts[i].severity>>]

\* the outputs of the evaluators that have run
Outputs == (IF srvDone THEN {srvOut} ELSE {}) \cup (IF monDone THEN {monOut} ELSE {})

\* C1: the test fixture yields exactly the 7 alerts HR low/critical, Pulse
\* low/critical, SpO2 low/critical, ABP Sys (85) low/warning, PAP Dia (13)
\* high/warning, EtCO2 high/warning, awRR high/critical.
C1_FixtureSevenAlerts ==
    evalInput = FixtureReading =>
        \A out \in Outputs :
            Summary(out) = << <<"HR", 45, "low", "critical">>,
                              <<"Pulse", 45, "low", "critical">>,
                              <<"SpO2", 85, "low", "critical">>,
                              <<"ABP Sys", 85, "low", "warning">>,
                              <<"PAP Dia", 13, "high", "warning">>,
                              <<"EtCO2", 50, "high", "warning">>,
                              <<"awRR", 25, "high", "critical">> >>

\* what the code yields for the fixture: SpO2 85 and awRR 25 sit on the
\* critical bounds and are classified warning
C1_FixtureAsEvaluated ==
    evalInput = FixtureReading =>
        \A out \in Outputs :
            Summary(out) = << <<"HR", 45, "low", "critical">>,
                              <<"Pulse", 45, "low", "critical">>,
                              <<"SpO2", 85, "low", "warning">>,
                              <<"ABP Sys", 85, "low", "warning">>,
                              <<"PAP Dia", 13, "high", "warning">>,
                              <<"EtCO2", 50, "high", "warning">>,
                              <<"awRR", 25, "high", "warning">> >>

\* C2: a vital whose value lies in [normalLow, normalHigh], bounds included,
\* gets no alert of its kind, from either evaluator.
C2_InRangeNoAlert ==
    \A k \in KindSet :
        (/\ IsSome(evalTruth[k])
         /\ RangeSpec[k].normalLow <= Val(evalTruth[k])
         /\ Val(evalTruth[k]) <= RangeSpec[k].normalHigh)
        => \A out \in Outputs : OfKind(out, k) = <<>>

\* a reading with the arterial systolic pressure on normalLow (90) and the
\* airway respiratory rate on normalHigh (20) has been evaluated by both
C2_Witness ==
    /\ srvDone /\ monDone
    /\ evalTruth["ABP Sys"] = Some(90)
    /\ evalTruth["awRR"] = Some(20)
    /\ evalTruth["HR"] = Some(45)
    /\ Len(srvOut) > 0 /\ Len(monOut) > 0
    /\ OfKind(srvOut, "ABP Sys") = <<>> /\ OfKind(monOut, "ABP Sys") = <<>>
    /\ OfKind(srvOut, "awRR") = <<>> /\ OfKind(monOut, "awRR") = <<>>

\* the alert the specification asks for a value outside the normal range
Expected(k, v) ==
    <<k, v,
      IF v < RangeSpec[k].normalLow THEN "low" ELSE "high",
      IF v < RangeSpec[k].criticalLow \/ v > RangeSpec[k].criticalHigh
      THEN "critical" ELSE "warning">>

C4_SpO2NeverHigh ==
    \A out \in Outputs :
        \A i \in 1..Len(out) :
            out[i].vital = "SpO2" =>
                /\ out[i].type = "low"
                /\ IsSome(evalTruth["SpO2"])
                /\ Val(evalTruth["SpO2"]) < 90
                /\ out[i].value = Val(evalTruth["SpO2"])

\* SpO2 101 has been evaluated by both and raised no SpO2 alert
C4_Witness ==
    /\ srvDone /\ monDone
    /\ evalTruth["SpO2"] = Some(101)
    /\ OfKind(srvOut, "SpO2") = <<>>
    /\ OfKind(monOut, "SpO2") = <<>>


-----------------------------------------------------------------------------
(* Claims on the alert sets                                                 *)

\* C5: after the alert set of a subject is updated with a new evaluation, no
\* displayed alert is of a kind the new evaluation has no alert for (here:
\* the banner, right after it has evaluated a reading)
C5_AbsentKindsRemoved ==
    (lastOp.op = "banner" /\ IsSome(lastOp.reading))
        => KindsOf(activeAlerts(vnAlerts, dismissedAlerts)) \subseteq KindsOf(lastOp.alerts)

\* C6: the alert set stored for a subject holds at most one alert per vital
\* kind, whatever local evaluations, server-pushed alerts and clears came
\* before
C6_AtMostOnePerKind ==
    \A p \in DOMAIN patientNotifications :
        \A i, j \in 1..Len(patientNotifications[p]) :
            i # j => patientNotifications[p][i].vital # patientNotifications[p][j].vital

\* C7: a step that clears a subject leaves get(subject) empty and leaves the
\* alert set of every other subject as it was
C7_ClearOnlyThatSubject ==
    [][ lastOp'.op = "clear" =>
          LET p == Val(lastOp'.patient)
          IN  /\ getPatientNotifications(patientNotifications', p) = <<>>
              /\ \A q \in Patients \ {p} :
                    /\ (q \in DOMAIN patientNotifications') = (q \in DOMAIN patientNotifications)
                    /\ getPatientNotifications(patientNotifications', q)
                         = getPatientNotifications(patientNotifications, q) ]_vars

C7_Witness ==
    /\ lastOp.op = "clear"
    /\ Val(lastOp.patient) \notin DOMAIN patientNotifications
    /\ \E q \in DOMAIN patientNotifications : Len(patientNotifications[q]) > 0

\* every element of a request body has all vital fields absent
AllAbsentBody(body) == Len(body) > 0 /\ \A i \in 1..Len(body) : AllAbsent(body[i])

\* C8: a reading with all vital fields absent yields zero alerts; the server
\* handling it changes no entry of the store (it pushes no alert), and the
\* monitor evaluating it changes no other subject's entry and changes the
\* subject's own entry only by the update with the empty set, which removes it
C8_AllAbsentReading ==
    [][ /\ (lastOp'.op = "post" /\ AllAbsentBody(lastOp'.body)) =>
              /\ \A i \in 1..Len(lastOp'.emits) : lastOp'.emits[i].event # "vital-alert"
              /\ socketQueue' = socketQueue
              /\ patientNotifications' = patientNotifications
        /\ (/\ lastOp'.op = "monitor" /\ IsSome(lastOp'.patient)
            /\ IsSome(lastOp'.reading) /\ AllAbsent(Val(lastOp'.reading))) =>
              LET p == Val(lastOp'.patient)
              IN  /\ lastOp'.alerts = <<>>
                  /\ \A q \in Patients \ {p} :
                        /\ (q \in DOMAIN patientNotifications')
                              = (q \in DOMAIN patientNotifications)
                        /\ getPatientNotifications(patientNotifications', q)
                              = getPatientNotifications(patientNotifications, q)
                  /\ IF lastOp'.evaluated
                     THEN p \notin DOMAIN patientNotifications'
                     ELSE patientNotifications' = patientNotifications ]_vars

C8_Witness ==
    /\ lastOp.op = "monitor" /\ IsSome(lastOp.reading)
    /\ AllAbsent(Val(lastOp.reading))
    /\ lastOp.evaluated
    /\ Val(lastOp.patient) \notin DOMAIN patientNotifications
    /\ \E q \in DOMAIN patientNotifications : Len(patientNotifications[q]) > 0

-----------------------------------------------------------------------------
(* Claims on the rate limiter and the dispatcher                            *)

MailKeys == {<<p, k>> : p \in Patients, k \in KindSet}

\* the times of the successful sends for a key
DeliveredAt(key) ==
    {mailLog[i].at : i \in {j \in 1..Len(mailLog) : mailLog[j].key = key /\ mailLog[j].ok}}

Latest(times) == CHOOSE t \in times : \A u \in times : u <= t

\* C9: for every key (subject, vital kind), at every time from now on,
\* shouldDeliver is true when no delivery was recorded for the key, false
\* when the last recorded delivery is less than the cooldown (5 minutes)
\* back, and true when it is the cooldown or more back
C9_Cooldown ==
    \A key \in MailKeys : \A now \in serverClock..(MaxClock + Cooldown) :
        shouldDeliver(rateLimiter, key, now)
          <=> \/ DeliveredAt(key) = {}
              \/ now - Latest(DeliveredAt(key)) >= Cooldown

C9_Witness ==
    \E key \in MailKeys :
        /\ Cardinality(DeliveredAt(key)) = 2
        /\ \E t \in DeliveredAt(key) : t + Cooldown \in DeliveredAt(key)
        /\ ~shouldDeliver(rateLimiter, key, serverClock)

\* the elements of a request body that are of subject p
ReadingsFor(body, p) ==
    {i \in 1..Len(body) : completeVital(body[i], serverClock).patient_id = p}

\* the elements of a request body of subject p whose evaluation alerts on kind k
AlertingReadings(body, p, k) ==
    {i \in ReadingsFor(body, p) :
        \E a \in Range(generateAlertsForVitals(completeVital(body[i], serverClock),
                                               serverClock)) : a.vital = k}

\* the vital-alert events of kind k among the emits to the room of subject p
AlertEmits(emits, p, k) ==
    SelectSeq(deliveredTo(emits, RoomOf(p), "vital-alert"), LAMBDA a : a.vital = k)

NewMail == SubSeq(mailLog', Len(mailLog) + 1, Len(mailLog'))

\* C11: in a request where the send for a key fails, the rate-limit entry
\* of the key is left as it was, the send is tried at most once per alert of
\* the key (no retry), and the limiter still permits a delivery for the key
\* right away
C11_FailedSendNotRecorded ==
    [][ lastOp'.op = "post" =>
          \A key \in MailKeys :
             (\E i \in 1..Len(NewMail) : NewMail[i].key = key /\ ~NewMail[i].ok) =>
                /\ (key \in DOMAIN rateLimiter') = (key \in DOMAIN rateLimiter)
                /\ key \in DOMAIN rateLimiter => rateLimiter'[key] = rateLimiter[key]
                /\ Cardinality({i \in 1..Len(NewMail) : NewMail[i].key = key})
                      <= Cardinality({i \in 1..Len(lastOp'.emits) :
                                        /\ lastOp'.emits[i].event = "vital-alert"
                                        /\ KeyOf(lastOp'.emits[i].payload) = key})
                /\ shouldDeliver(rateLimiter', key, serverClock') ]_vars

\* a send for a key failed, and the next request's send for the key was
\* made in the same minute and succeeded
C11_Witness ==
    /\ lastOp.op = "post"
    /\ \E i, j \in 1..Len(mailLog) :
          /\ i < j /\ mailLog[i].key = mailLog[j].key
          /\ ~mailLog[i].ok /\ mailLog[j].ok
          /\ mailLog[i].at = mailLog[j].at
          /\ rateLimiter[mailLog[j].key] = mailLog[j].at

-----------------------------------------------------------------------------
(* Claims on POST /api/vitals                                               *)

\* the rows of a request body for subject q
RowsFor(body, q) ==
    Cardinality({i \in 1..Len(body) : completeVital(body[i], serverClock).patient_id = q})

\* C12: when generating or broadcasting the events of a reading fails, the
\* request is still answered with success (201) and its rows are committed
C12_BroadcastFailureSwallowed ==
    [][ (/\ lastOp'.op = "post"
         /\ lastOp'.fault.kind \in {"emit-all", "emit-room", "alerts"}) =>
            /\ lastOp'.status = 201
            /\ \A q \in Patients :
                  vitalsTable'[q] = vitalsTable[q] + RowsFor(lastOp'.body, q) ]_vars

\* the position of a kind in an order of the kinds
PosIn(order, k) == CHOOSE i \in 1..Len(order) : order[i] = k

\* the order of the fields of a reading in section 3 of the specification
FieldOrder == <<"HR", "Pulse", "SpO2", "EtCO2", "awRR", "ABP Sys", "PAP Dia">>

\* the vital-alert events emitted for one element follow the order: of two
\* of them with no vital-update in between, the earlier is of the earlier kind
EmittedInOrder(emits, order) ==
    \A i, j \in 1..Len(emits) :
        (/\ i < j
         /\ \A m \in i..j : emits[m].event = "vital-alert") =>
            PosIn(order, emits[i].payload.vital) < PosIn(order, emits[j].payload.vital)

\* C13 as stated: the alerts of a reading are broadcast in the order
\* heartRate, pulse, spo2, etCO2, airwayRespRate, arterialBP, pulmonaryAP
C13_FieldOrder ==
    lastOp.op = "post" => EmittedInOrder(lastOp.emits, FieldOrder)

\* C13 amended: the alerts of a reading are broadcast in the order HR,
\* Pulse, SpO2, ABP Sys, PAP Dia, EtCO2, awRR, and a request with the same
\* reading twice emits the same events for both
C13_KindOrder ==
    lastOp.op = "post" =>
       /\ EmittedInOrder(lastOp.emits, Kinds)
       /\ (/\ Len(lastOp.body) = 2 /\ lastOp.body[1] = lastOp.body[2]
           /\ lastOp.fault.kind = "none") =>
             LET half == Len(lastOp.emits) \div 2
             IN  SubSeq(lastOp.emits, 1, half)
                    = SubSeq(lastOp.emits, half + 1, Len(lastOp.emits))

\* the fixture was posted and its seven alerts were emitted
C13_Witness ==
    /\ lastOp.op = "post" /\ lastOp.status = 201
    /\ Len(SelectSeq(lastOp.emits, LAMBDA e : e.event = "vital-alert")) = 7

-----------------------------------------------------------------------------
(* Claims on the alerts of one reading                                      *)

\* the same reading, taken at another time
TakenAt(reading, t) == [reading EXCEPT !.created_at = t]

\* C14: the id of an alert is a function of (subject, kind, reading
\* timestamp): an evaluation of the same reading at another wall-clock time
\* gives the same ids, the alerts of one evaluation have different ids, and
\* the alerts of a reading taken at another time have other ids
C14_IdFromReading ==
    /\ srvDone =>
          /\ IdsOf(generateAlertsForVitals(evalInput, 2)) = IdsOf(srvOut)
          /\ Cardinality(IdsOf(srvOut)) = Len(srvOut)
          /\ IdsOf(generateAlertsForVitals(TakenAt(evalInput, 2), 1)) \cap IdsOf(srvOut) = {}
    /\ monDone =>
          /\ Cardinality(IdsOf(monOut)) = Len(monOut)
          /\ IdsOf(monitorAlerts(TakenAt(evalInput, 2), evalInput.patient_id))
                \cap IdsOf(monOut) = {}

\* the blood-pressure columns with the kind read from each
PressureKind == [abp |-> "ABP Sys", pap |-> "PAP Dia"]

\* the reading with a column left out
Without(reading, f) == [reading EXCEPT ![f] = None]

OtherComponents == {0, 45, 200}

\* strings that carry sys at index 0, with other diastolic and mean values
SameSystolic(sys) ==
    { FormatBP(sys, d) : d \in OtherComponents }
    \cup { FormatBP(sys, d) \o <<"/">> \o NumToStr(m) : d, m \in OtherComponents }

\* strings that carry dia at index 1, with other systolic and mean values
SameDiastolic(dia) ==
    { FormatBP(y, dia) : y \in OtherComponents }
    \cup { FormatBP(y, dia) \o <<"/">> \o NumToStr(m) : y, m \in OtherComponents }

\* any string for a blood-pressure column, or none
AnyPressure == {None} \cup { Some(FormatBP(y, d)) : y, d \in OtherComponents }

\* C16: the ABP Sys alert depends on component 0 of arterialBP only and the
\* PAP Dia alert on component 1 of pulmonaryAP only: "85/60" is evaluated as
\* 85, low; the other components change no alert; and another arterialBP
\* leaves the PAP Dia alert as it is, another pulmonaryAP the ABP Sys alert
C16_OnlyTheEvaluatedComponent ==
    srvDone =>
       /\ evalTruth["ABP Sys"] = Some(85) =>
             Summary(OfKind(srvOut, "ABP Sys")) = << <<"ABP Sys", 85, "low", "warning">> >>
       /\ IsSome(evalTruth["ABP Sys"]) =>
             \A a \in SameSystolic(Val(evalTruth["ABP Sys"])) :
                generateAlertsForVitals([evalInput EXCEPT !.abp = Some(a)], 1) = srvOut
       /\ IsSome(evalTruth["PAP Dia"]) =>
             \A q \in SameDiastolic(Val(evalTruth["PAP Dia"])) :
                generateAlertsForVitals([evalInput EXCEPT !.pap = Some(q)], 1) = srvOut
       /\ \A a \in AnyPressure :
             /\ OfKind(generateAlertsForVitals([evalInput EXCEPT !.abp = a], 1), "PAP Dia")
                   = OfKind(srvOut, "PAP Dia")
             /\ OfKind(generateAlertsForVitals([evalInput EXCEPT !.pap = a], 1), "ABP Sys")
                   = OfKind(srvOut, "ABP Sys")

\* the fixture ("85/60", "15/13") was evaluated: ABP Sys low, PAP Dia high
C16_Witness ==
    /\ srvDone
    /\ evalInput.abp = Some(FormatBP(85, 60))
    /\ evalInput.pap = Some(FormatBP(15, 13))
    /\ Summary(OfKind(srvOut, "PAP Dia")) = << <<"PAP Dia", 13, "high", "warning">> >>
    /\ Summary(OfKind(srvOut, "ABP Sys")) = << <<"ABP Sys", 85, "low", "warning">> >>

\* C17: the evaluator of the server and the evaluators of the browser
\* (PatientVitalMonitor, VitalNotifications) give, for every reading, the same
\* sequence of (vital kind, value, direction, severity)
C17_SameAlertsEverywhere ==
    (srvDone /\ monDone) =>
       /\ Summary(monOut) = Summary(srvOut)
       /\ Summary(bannerAlerts(evalInput)) = Summary(srvOut)

\* the three evaluators have run on the fixture with SpO2 92, a value between
\* the two SpO2 thresholds of the banner's table (low 90, min 95): six alerts
\* each, none for SpO2
C17_Witness ==
    /\ srvDone /\ monDone
    /\ evalInput = [FixtureReading EXCEPT !.spo2 = Some(92)]
    /\ Len(srvOut) = 6 /\ Len(monOut) = 6 /\ Len(bannerAlerts(evalInput)) = 6
    /\ OfKind(srvOut, "SpO2") = <<>>

\* the number the request element e submits for kind k, if any
SubmittedValue(e, k) ==
    CASE k = "HR"      -> e.hr
      [] k = "Pulse"   -> e.pulse
      [] k = "SpO2"    -> e.spo2
      [] k = "EtCO2"   -> e.etco2
      [] k = "awRR"    -> e.awrr
      [] k = "ABP Sys" -> IF Truthy(e.abp) THEN parseInt(At(Split(Val(e.abp)), 0)) ELSE None
      [] k = "PAP Dia" -> IF Truthy(e.pap) THEN parseInt(At(Split(Val(e.pap)), 1)) ELSE None

\* v of kind k is outside the normal range (SpO2 has no upper side)
Abnormal(k, v) ==
    \/ v < RangeSpec[k].normalLow
    \/ k # "SpO2" /\ v > RangeSpec[k].normalHigh

\* v of kind k passes the validation of the handler and is stored as it is
Stored(k, v) ==
    CASE k \in {"HR", "Pulse"}   -> v > 0 /\ v < 300
      [] k = "SpO2"              -> v > 0 /\ v <= 100
      [] k \in {"EtCO2", "awRR"} -> v # 0
      [] OTHER                   -> TRUE

-----------------------------------------------------------------------------
(* Claims on the extraction                                                 *)

\* the content holds a JSON object: an opening brace, nothing or a list of
\* well-formed members, a closing brace
ContainsJSONObject(content) ==
    \E i \in 1..Len(content) : \E j \in i..Len(content) :
       IsSome(JSONparse(SubSeq(content, i, j)))

\* a fallback service has been called
FallbackCalled == \E i \in 1..Len(exCalls) : exCalls[i] \in {"tesseract", "gemini"}

\* C19: the Hugging Face model is called first; when its response contains
\* a JSON object the request is answered once, with source huggingface, and
\* no fallback is called; the fallbacks are called only after the Hugging
\* Face call failed or returned no JSON; the request is then answered
\* exactly once with the fallback result, all vitals null when both fail
C19_HuggingFaceFirst ==
    /\ exCalls # <<>> => exCalls[1] = "huggingface"
    /\ (exHF.state = "fulfilled" /\ ContainsJSONObject(exHF.value)) =>
          /\ ~FallbackCalled
          /\ Len(exAnswers) = 1
          /\ exAnswers[1].status = 200 /\ exAnswers[1].source = "huggingface"
    /\ FallbackCalled =>
          \/ exHF.state = "rejected"
          \/ exHF.state = "fulfilled" /\ ~ContainsJSONObject(exHF.value)
    /\ exPc = "done" => Len(exAnswers) = 1
    /\ exPc # "done" => exAnswers = <<>>
    /\ (exPc = "done" /\ FallbackCalled) =>
          /\ exAnswers[1].status = 200
          /\ exAnswers[1].source \in {"tesseract", "gemini", "none"}
          /\ (exTess = Rejected /\ exGem = Rejected) =>
                exAnswers[1].vitals = NoVitals /\ exAnswers[1].source = "none"

-----------------------------------------------------------------------------
(* Claims on the life of a displayed alert                                  *)

\* the kinds the banner displays
Displayed(alerts, dismissed) == KindsOf(activeAlerts(alerts, dismissed))

\* C20: per vital kind the alert the banner displays goes Normal -> Active
\* -> Normal / Cleared: a dismissal removes the dismissed alert; a kind that
\* is not displayed comes to be displayed only by the delivery of another
\* reading that is out of range for it (never by the same reading delivered
\* or evaluated again); and once a delivered reading has the kind back in
\* range, no alert of the kind is displayed or kept
C20_AlertLife ==
    [][ /\ lastOp'.op = "dismiss" =>
              lastOp'.id \notin IdsOf(activeAlerts(vnAlerts', dismissedAlerts'))
        /\ \A k \in KindSet :
              /\ (k \notin Displayed(vnAlerts, dismissedAlerts)
                    /\ k \in Displayed(vnAlerts', dismissedAlerts'))
                 => /\ lastOp'.op = "banner"
                    /\ vnLatest' # vnLatest
                    /\ k \in KindsOf(lastOp'.alerts)
              /\ (lastOp'.op = "banner" /\ IsSome(lastOp'.reading)
                    /\ k \notin KindsOf(lastOp'.alerts))
                 => k \notin KindsOf(vnAlerts')
      ]_vars

-----------------------------------------------------------------------------
(* Claims on the patients, beds and vitals tables                           *)

\* nothing of patient id is left: no row, no vitals, committed or being
\* inserted, and no bed
Gone(id) ==
    /\ id \notin dbPatients
    /\ dbVitals[id] = 0
    /\ ~ChildLock(id)
    /\ \A b \in Beds : dbBeds[b] # Some(id)

\* C21: once DELETE /api/patients/:id has answered success, the patient
\* row, every vitals row of the patient and the bed assignment are gone,
\* also with readings of the patient saved concurrently; a request for an
\* unknown id is answered 404 and changes no table
C21_DeleteRemovesAll ==
    [][ /\ \A id \in PatientIds :
              (delReq'.status = 200 /\ delReq'.id = id) => Gone(id)'
        /\ (delReq' # delReq /\ delReq'.status = 404)
              => /\ delReq'.id \notin dbPatients
                 /\ UNCHANGED <<dbPatients, dbBeds, dbVitals, dbNextId>>
        /\ (delReq' # delReq /\ delReq.pc \in {"idle", "done"} /\ delReq'.id \notin dbPatients)
              => delReq'.status = 404
      ]_vars

\* a patient who had a bed was deleted with success while a reading of the
\* patient was saved by a transaction that committed
C21_Witness ==
    /\ delReq.status = 200
    /\ vitReq.status = 201 /\ vitReq.pid = delReq.id
    /\ \E r \in AddReqs : addReq[r].status = 201 /\ addReq[r].pid = Some(delReq.id)
                          /\ IsSome(addReq[r].bed)
    /\ Gone(delReq.id)

-----------------------------------------------------------------------------
(* Claims on the live tiles                                                 *)

\* the tiles of LiveMonitor with a status: field of the reading, alert kind
LiveTiles == { <<"hr", "HR">>, <<"spo2", "SpO2">>, <<"etco2", "EtCO2">>, <<"awrr", "awRR">> }

\* what the evaluator says of kind k: normal without an alert, else the
\* severity of the alert
EvaluatorStatus(alerts, k) ==
    IF OfKind(alerts, k) = <<>> THEN "normal" ELSE OfKind(alerts, k)[1].severity

\* C22: the status LiveMonitor shows for HR, SpO2, EtCO2 and awRR agrees
\* with the alert evaluator for every value: normal iff no alert of the
\* kind, warning iff a warning alert, critical iff a critical alert
C22_TileAgreesWithEvaluator ==
    srvDone =>
       \A t \in LiveTiles :
          getVitalStatus(evalInput[t[1]], t[1]) = EvaluatorStatus(srvOut, t[2])

-----------------------------------------------------------------------------
(* Claims on the monitor across patients                                    *)

\* C23: when the monitor is handed a reading of subject S that is newer
\* than every reading evaluated for S before, it evaluates the reading and
\* updates the store entry of S, whatever readings of other subjects it
\* evaluated before
C23_EvaluatedPerSubject ==
    [][ \A q \in Patients :
           (/\ lastOp'.op = "monitor"
            /\ lastOp'.patient = Some(q)
            /\ IsSome(lastOp'.reading)
            /\ Val(lastOp'.reading).created_at > evaluatedAt[q])
           => /\ lastOp'.evaluated
              /\ getPatientNotifications(patientNotifications', q) = lastOp'.alerts
      ]_vars

-----------------------------------------------------------------------------
(* Claims on the broadcast and the transaction of POST /api/vitals          *)

\* C24: in a batch POST /api/vitals every reading broadcast as vital-update,
\* and every vital-alert derived from it, belongs to a transaction that
\* commits: a request whose transaction is rolled back has emitted nothing
C24_BroadcastOnlyCommitted ==
    (lastOp.op = "post" /\ lastOp.status # 201) => lastOp.emits = <<>>

-----------------------------------------------------------------------------
(* Claims on POST /api/patients                                             *)

\* C25: every transaction POST /api/patients has begun is committed or
\* rolled back before its connection is released to the pool, on every
\* path, the 400 answer to an incomplete body included
C25_NoOpenTransactionReleased ==
    \A r \in AddReqs :
       addReq[r].released => addReq[r].tx \in {"none", "committed", "rolledback"}

\* no POST /api/patients transaction is in flight
AddsQuiet == \A r \in AddReqs : addReq[r].pc \in {"idle", "done"}

\* the bed that holds patient id, if any
HasBed(id) == \E b \in Beds : dbBeds[b] = Some(id)

\* C26: under concurrent POST /api/patients requests a bed is never handed
\* to two patients: once the transactions have committed, every patient
\* whose answer reports bedAssigned with bedId b is the patient stored in
\* bed b, and no bed is free while an admitted patient has none (before any
\* patient is deleted)
C26_OneBedOnePatient ==
    (AddsQuiet /\ delReq.n = 0) =>
       /\ \A r \in AddReqs :
             (addReq[r].status = 201 /\ IsSome(addReq[r].bed))
                => dbBeds[Val(addReq[r].bed)] = addReq[r].pid
       /\ (\E b \in Beds : dbBeds[b] = None) => \A id \in dbPatients : HasBed(id)


\* C27: after every change of the store (local evaluation, addManualAlert,
\* clear) every subscribed listener has been invoked, so each mounted
\* NotificationBell shows getPatientNotifications of its patient; no callback
\* that was unsubscribed is invoked again; and an evaluation with no alert
\* for a patient without an entry invokes no listener.
C27_ListenersFollowTheStore ==
    [][ /\ \A b \in Bells :
             bellSub'[b] # None =>
                notifications'[b] =
                    updateNotifications(bellPatientId'[b], patientNotifications')
        /\ patientNotifications' # patientNotifications => notified' = listeners'
        /\ notified' \cap unsubscribed' = {}
        /\ ( /\ lastOp'.op = "monitor"
             /\ lastOp'.alerts = <<>>
             /\ IsSome(lastOp'.patient) =>
                   Val(lastOp'.patient) \notin DOMAIN patientNotifications )
           => notified' = {}
      ]_vars

\* a bell mounted a second time shows the alerts a manual alert just added
\* to an evaluated list, its callback was invoked, an older one is retired
C27_Witness ==
    /\ lastOp.op = "manual"
    /\ unsubscribed # {}
    /\ \E b \in Bells :
         /\ bellSub[b] # None
         /\ Val(bellSub[b]) \in notified
         /\ Len(notifications[b]) = 2
         /\ notifications[b] = getPatientNotifications(patientNotifications, 1)


\* the vital-update events a step has put in flight to the viewer
NewUpdates == SubSeq(viewQueue', Len(viewQueue) + 1, Len(viewQueue'))

\* C28: a connected viewer receives the vital-update of each reading of a
\* saved request exactly once, whether or not its socket has joined the
\* patient's room, so each reading the viewer takes adds exactly one point to
\* its live history
C28_OneUpdatePerViewer ==
    [][ (viewConnected /\ posts' # posts /\ lastOp'.status = 201) =>
           /\ Len(NewUpdates) = Len(lastOp'.body)
           /\ Len(historyAfter(<<>>, NewUpdates, viewPatientId))
                 = Cardinality({ i \in 1..Len(lastOp'.body) :
                       viewerTakes(completeVital(lastOp'.body[i], serverClock),
                                   viewPatientId) })
      ]_vars


\* C29: a vital-alert generated for patient P is emitted to room patient-P
\* only, an alert in flight to the monitor's socket is one of the patient
\* whose room the socket joined, and every alert in the store entry of a
\* patient carries that patient's id
C29_AlertsIsolated ==
    /\ lastOp.op = "post" =>
          \A e \in Range(lastOp.emits) :
             e.event = "vital-alert" => e.room = RoomOf(e.payload.patientId)
    /\ \A i \in 1..Len(socketQueue) :
          monJoined /\ monPatient = Some(socketQueue[i].patientId)
    /\ \A q \in DOMAIN patientNotifications :
          \A i \in 1..Len(patientNotifications[q]) :
             patientNotifications[q][i].patientId = q

\* the monitor's socket is in the room of patient 1 when a reading of
\* patient 2 is saved with alerts: nothing is in flight to the monitor and
\* the store has no entry for patient 2
C29_Witness ==
    /\ monPatient = Some(1) /\ monJoined
    /\ lastOp.op = "post" /\ lastOp.status = 201
    /\ \E e \in Range(lastOp.emits) :
          e.event = "vital-alert" /\ e.payload.patientId = 2
    /\ socketQueue = <<>>
    /\ 2 \notin DOMAIN patientNotifications


\* C30: while the camera is capturing at most one frame is outstanding at
\* the OCR worker: a tick of the timer that fires while a frame is still
\* being processed posts no new frame
C30_OneFrameOutstanding ==
    Len(workerFrames) <= 1

=============================================================================
